---------------------------- MODULE Spec2Model ----------------------------
(***************************************************************************)
(* A model of the climate data server (src/qgis-processing): the Flask     *)
(* endpoints of climate_server.py and the Earth Engine services they call. *)
(*                                                                         *)
(* Units.  Request bounds are whole degrees.  Buffered bounds, cell        *)
(* centres and cell vertices are in units of 1e-4 degree (u), the values   *)
(* the code rounds lat/lon to.  Reducer values are in hundredths of the    *)
(* physical unit (centi-Kelvin, centi-degree Celsius): the code rounds the *)
(* emitted values to two decimals.                                         *)
(*                                                                         *)
(* The H3 library and Earth Engine are external.  H3 is represented by a   *)
(* rectangular lattice whose cell area at each resolution is the area the  *)
(* code's own resolution_area_km2 table gives (flat earth, 111 km per      *)
(* degree, as in the code's estimate).  Earth Engine is an environment     *)
(* that, per request, may fail at any of its blocking calls and may        *)
(* return no value for some cells.                                         *)
(***************************************************************************)
EXTENDS Integers, Sequences, FiniteSets, TLC

VARIABLES initialized, phase, req, resp, ee_env, trace, cached_tiles, lst_tiles, threads

vars == <<initialized, phase, req, resp, ee_env, trace, cached_tiles, lst_tiles, threads>>

\* ------------------------------------------------------------ bounds
\* Request spans (whole degrees) range over -1..MaxSpan; MaxThreads request
\* threads of the server run at the same time.
MaxSpan == 2
\* The reducer may return no value for the cells at list ranks 1..MaxGapRank.
MaxGapRank == 2
MaxThreads == 2

\* ------------------------------------------------------------ helpers
Min(a, b) == IF a < b THEN a ELSE b
Max(a, b) == IF a > b THEN a ELSE b

\* whole degrees -> u
Deg(d) == d * 10000

\* smallest integer >= a / b, for b > 0
CeilDiv(a, b) == -((-a) \div b)

\* ------------------------------------------------------------ H3 lattice
\* Side of a cell in u: sqrt(resolution_area_km2) km at 111 km per degree.
CellPitch(resolution) ==
    CASE resolution = 1 -> 69783
      [] resolution = 2 -> 26420
      [] resolution = 3 -> 9869
      [] resolution = 4 -> 3715
      [] resolution = 5 -> 1396
      [] resolution = 6 -> 525
      [] resolution = 7 -> 197
      [] resolution = 8 -> 75
      [] resolution = 9 -> 28
      [] resolution = 10 -> 11
      [] OTHER -> 1396

\* h3.latlng_to_cell: the id of the cell containing a point.
LatLngToCell(lat, lon, resolution) ==
    <<resolution, lat \div CellPitch(resolution), lon \div CellPitch(resolution)>>

\* h3.cell_to_latlng: the centre (lat, lon) of a cell.
CellToLatLng(hex_id) ==
    LET p == CellPitch(hex_id[1])
    IN  <<(hex_id[2] * p) + (p \div 2), (hex_id[3] * p) + (p \div 2)>>

\* h3.cell_to_boundary: the ordered ring of (lat, lon) vertices, not closed.
CellToBoundary(hex_id) ==
    LET p    == CellPitch(hex_id[1])
        lat0 == hex_id[2] * p
        lon0 == hex_id[3] * p
    IN  << <<lat0, lon0 + (p \div 2)>>,
           <<lat0 + (p \div 4), lon0 + p>>,
           <<lat0 + ((3 * p) \div 4), lon0 + p>>,
           <<lat0 + p, lon0 + (p \div 2)>>,
           <<lat0 + ((3 * p) \div 4), lon0>>,
           <<lat0 + (p \div 4), lon0>> >>

\* The integers of a finite set, ascending.
SortedSeq(S) ==
    IF S = {} THEN <<>>
    ELSE LET lo == CHOOSE x \in S : \A y \in S : x <= y
             hi == CHOOSE x \in S : \A y \in S : x >= y
             InS(x) == x \in S
         IN  SelectSeq([k \in 1..(hi - lo + 1) |-> lo + k - 1], InS)

\* A list of cell ids is a window of a block of the lattice: the cells
\* <<res, i, j>> with i among rows and j among cols (both ascending, without
\* repeats), taken row by row, without the first skip of them and take long.
Cells(resolution, rows, cols) ==
    [res |-> resolution, rows |-> rows, cols |-> cols, skip |-> 0,
     take |-> Len(rows) * Len(cols)]

\* A tessellation that lists its first row of cells twice.
H3ShapeToCellsRepeating(south, north, west, east, resolution) ==
    LET p   == CellPitch(resolution)
        h   == p \div 2
        ilo == CeilDiv(Min(south, north) - h, p)
        ihi == (Max(south, north) - h) \div p
        jlo == CeilDiv(Min(west, east) - h, p)
        jhi == (Max(west, east) - h) \div p
    IN  Cells(resolution,
              <<ilo>> \o [k \in 1..Max(0, ihi - ilo + 1) |-> ilo + k - 1],
              [k \in 1..Max(0, jhi - jlo + 1) |-> jlo + k - 1])

\* h3.h3shape_to_cells / h3.geo_to_cells on the rectangle with the given
\* corners: the cells whose centre lies in it.
H3ShapeToCells(south, north, west, east, resolution) ==
    LET p   == CellPitch(resolution)
        h   == p \div 2
        lo  == Min(south, north)
        hi  == Max(south, north)
        le  == Min(west, east)
        ri  == Max(west, east)
        ilo == CeilDiv(lo - h, p)
        ihi == IF lo = hi \/ le = ri THEN ilo - 1 ELSE (hi - h) \div p
        jlo == CeilDiv(le - h, p)
        jhi == (ri - h) \div p
    IN  Cells(resolution,
              [k \in 1..Max(0, ihi - ilo + 1) |-> ilo + k - 1],
              [k \in 1..Max(0, jhi - jlo + 1) |-> jlo + k - 1])

\* A dense grid whose loops stop halfway to north and to east.
DenseGridCellsHalfway(south, north, west, east, resolution, lat_step, lon_step) ==
    LET p == CellPitch(resolution)
        visited(from, to, step) ==
            IF to < from THEN {}
            ELSE {(from + k * step) \div p : k \in 0..((to - from) \div (2 * step))}
    IN  Cells(resolution,
              SortedSeq(visited(south, north, lat_step)),
              SortedSeq(visited(west, east, lon_step)))

\* The dense-grid loops: lat from south while lat <= north, lon from west while
\* lon <= east, advancing by lat_step and lon_step, every point snapped to its
\* cell and collected in a set.  The lon loop restarts at west in every row, so
\* the cells are the product of the rows and the columns visited.
DenseGridCells(south, north, west, east, resolution, lat_step, lon_step) ==
    LET p == CellPitch(resolution)
        visited(from, to, step) ==
            IF to < from THEN {}
            ELSE {(from + k * step) \div p : k \in 0..((to - from) \div step)}
    IN  Cells(resolution,
              SortedSeq(visited(south, north, lat_step)),
              SortedSeq(visited(west, east, lon_step)))

\* len(hex_ids)
HexCount(hex_ids) == hex_ids.take

\* hex_ids[k]
HexAt(hex_ids, k) ==
    LET rank == hex_ids.skip + k
    IN  <<hex_ids.res,
          hex_ids.rows[1 + ((rank - 1) \div Len(hex_ids.cols))],
          hex_ids.cols[1 + ((rank - 1) % Len(hex_ids.cols))]>>

\* ------------------------------------------------------------ Earth Engine
\* reduceRegions / getInfo refuse a collection of more than 5000 elements.
EE_MAX_ELEMENTS == 5000

\* What the platform and the H3 library do during one request: down makes
\* every blocking Earth Engine call raise and fail_at = n makes the n-th one
\* raise (0: none); image_count is the size of the filtered image collection;
\* the platform has no data for the cells at the list ranks in gaps (for every
\* cell when all_absent), and no GRACE change for those at the ranks in
\* change_gaps; value is the raw mean it has for the other cells at odd ranks
\* and value2 at even ranks; tess_fails makes h3shape_to_cells raise;
\* sample_tail makes random.sample keep the end of the list instead of its
\* start; url_format is the tile URL of the map id that getMapId issues.
NoEnv ==
    [down |-> FALSE, fail_at |-> 0, image_count |-> 365, gaps |-> {}, change_gaps |-> {},
     all_absent |-> FALSE, value |-> 30000, value2 |-> 30000, tess_fails |-> FALSE,
     sample_tail |-> FALSE, url_format |-> "maps/1"]

\* Raw means tried, as <<value, value2>>: tasmax in hundredths of a kelvin
TasmaxValues == {<<30000, 30000>>, <<30000, 29940>>}

EnvOk(values) ==
    {[NoEnv EXCEPT !.gaps = g, !.value = v[1], !.value2 = v[2]] :
        g \in SUBSET (1..MaxGapRank), v \in values}

EnvAllAbsent == {[NoEnv EXCEPT !.all_absent = TRUE]}

EnvTessFails == {[NoEnv EXCEPT !.tess_fails = TRUE, !.gaps = g] : g \in {{}, {1}}}

EnvFailing(ncalls) ==
    {[NoEnv EXCEPT !.fail_at = n] : n \in 1..ncalls} \cup {[NoEnv EXCEPT !.down = TRUE]}

EnvEmptyCollection == {[NoEnv EXCEPT !.image_count = 0]}

Envs(ncalls, values) ==
    EnvOk(values) \cup EnvAllAbsent \cup EnvTessFails \cup EnvFailing(ncalls) \cup EnvEmptyCollection

\* The n-th blocking call of the request raises.
Fails(env, n) == env.down \/ env.fail_at = n

\* Whether the reducer has data for the cell at rank k, and the raw mean.
HasData(env, k) == ~env.all_absent /\ k \notin env.gaps

RawMean(env, k) == IF k % 2 = 1 THEN env.value ELSE env.value2

\* image.reduceRegions(collection=hex_fc, reducer=mean).getInfo()['features']:
\* one feature per submitted cell, in order, with 'mean' where there is data.
ReduceRegions(block, env) ==
    [k \in 1..HexCount(block) |->
        IF HasData(env, k)
        THEN [properties |-> [hexId |-> HexAt(block, k), mean |-> RawMean(env, k)]]
        ELSE [properties |-> [hexId |-> HexAt(block, k)]]]

\* ------------------------------------------------------------ outcomes
\* What a call did besides returning: gen_calls counts the calls of a cell
\* generator, batches lists the sizes of the collections handed to
\* reduceRegions, ee_calls counts the blocking Earth Engine calls and failed
\* those of them that raised, synthetic counts the emitted values that come
\* from a fallback or simulated generator, log holds the lines logged about
\* excluded cells, scenario_filter is the scenario the wet bulb dataset was
\* filtered by, region the bounds a tile endpoint handed to get_tile_url.
NoTrace ==
    [gen_calls |-> 0, batches |-> <<>>, ee_calls |-> 0, failed |-> 0, synthetic |-> 0,
     log |-> <<>>, scenario_filter |-> "none", region |-> <<>>]

\* The trace of a call whose last blocking call raised.
Failing(tr) == [tr EXCEPT !.failed = 1]

Msg(text) == [what |-> text]

\* The value None
PyNone == [type |-> "NoneType"]

Raised(type, what, tr) == [outcome |-> "raise", type |-> type, what |-> what, tr |-> tr]

Returned(value, tr) == [outcome |-> "return", value |-> value, tr |-> tr]

\* ------------------------------------------------------------ size check
\* resolution_area_km2.get(resolution, 240), as the fraction <<num, den>> km2
resolution_area_km2(resolution) ==
    CASE resolution = 1 -> <<600000, 1>>
      [] resolution = 2 -> <<86000, 1>>
      [] resolution = 3 -> <<12000, 1>>
      [] resolution = 4 -> <<1700, 1>>
      [] resolution = 5 -> <<240, 1>>
      [] resolution = 6 -> <<34, 1>>
      [] resolution = 7 -> <<48, 10>>
      [] resolution = 8 -> <<7, 10>>
      [] resolution = 9 -> <<1, 10>>
      [] resolution = 10 -> <<14, 1000>>
      [] OTHER -> <<240, 1>>

max_hexagons == 4500

\* approx_hex_count = (lat_span * 111) * (lon_span * 111) / hex_area, exactly:
\* whole + rem / num, computed without leaving 32 bits.
ApproxHexCount(lat_span, lon_span, resolution) ==
    LET hex_area      == resolution_area_km2(resolution)
        num           == hex_area[1]
        den           == hex_area[2]
        bbox_area_km2 == (lat_span * 111) * (lon_span * 111)
        q1            == bbox_area_km2 \div num
        r1            == bbox_area_km2 % num
    IN  [whole |-> (q1 * den) + ((r1 * den) \div num),
         rem   |-> (r1 * den) % num,
         num   |-> num]

\* A size check that reads every request as one at the 240 km2 resolution.
BoundsTooLargeAt240(lat_span, lon_span, resolution) ==
    (lat_span * 111) * (lon_span * 111) > max_hexagons * 240

\* approx_hex_count > max_hexagons
BoundsTooLarge(lat_span, lon_span, resolution) ==
    LET approx == ApproxHexCount(lat_span, lon_span, resolution)
    IN  \/ approx.whole > max_hexagons
        \/ approx.whole = max_hexagons /\ approx.rem > 0

\* The ValueError of the size check: the text names the span, the estimate
\* (printed with no decimals), the maximum and the remedy.
TooLargeError(lat_span, lon_span, resolution) ==
    LET approx == ApproxHexCount(lat_span, lon_span, resolution)
    IN  [what |-> "Bounding box too large",
         lat_span |-> lat_span, lon_span |-> lon_span,
         approx_hex_count |-> approx.whole + (IF 2 * approx.rem >= approx.num THEN 1 ELSE 0),
         max_hexagons |-> max_hexagons,
         hint |-> "Please zoom in closer"]


\* ------------------------------------------------------------ nasa_ee_climate.py
BASELINE_TEMP_C == 1450

KELVIN_OFFSET == 27315

DEFAULT_MODEL == "ACCESS-CM2"

\* SCENARIOS.get(scenario, 'ssp245')
NasaSspScenario(scenario) ==
    CASE scenario = "rcp26" -> "ssp126"
      [] scenario = "rcp45" -> "ssp245"
      [] scenario = "rcp85" -> "ssp585"
      [] OTHER -> "ssp245"

\* round(x / 10) for x in tenths of the emitted unit
RoundTenth(x) == (x + 5) \div 10

\* buffer_factors.get(resolution, 0.50), in percent
NasaBufferFactor(resolution) ==
    CASE resolution = 1 -> 100 [] resolution = 2 -> 100 [] resolution = 3 -> 90
      [] resolution = 4 -> 85  [] resolution = 5 -> 75  [] resolution = 6 -> 65
      [] resolution = 7 -> 55  [] resolution = 8 -> 45  [] resolution = 9 -> 35
      [] resolution = 10 -> 25 [] OTHER -> 50

\* Bounds buffered on every side without a limit on the latitudes.
BufferedBoundsUnclamped(bounds, buffer_factor) ==
    LET lat_buffer == (bounds.north - bounds.south) * buffer_factor * 100
        lon_buffer == (bounds.east - bounds.west) * buffer_factor * 100
    IN  [north |-> Deg(bounds.north) + lat_buffer,
         south |-> Deg(bounds.south) - lat_buffer,
         east  |-> Deg(bounds.east) + lon_buffer,
         west  |-> Deg(bounds.west) - lon_buffer]

\* buffered_bounds (u) of bounds (whole degrees) for a buffer factor in percent
BufferedBounds(bounds, buffer_factor) ==
    LET lat_span   == bounds.north - bounds.south
        lon_span   == bounds.east - bounds.west
        lat_buffer == lat_span * buffer_factor * 100
        lon_buffer == lon_span * buffer_factor * 100
    IN  [north |-> Min(Deg(90), Deg(bounds.north) + lat_buffer),
         south |-> Max(Deg(-90), Deg(bounds.south) - lat_buffer),
         east  |-> Deg(bounds.east) + lon_buffer,
         west  |-> Deg(bounds.west) - lon_buffer]

\* edge_length_map.get(resolution, 0.01) * 0.4, in u
DenseGridStep(resolution) ==
    CASE resolution = 1 -> 16000 [] resolution = 2 -> 6000 [] resolution = 3 -> 2000
      [] resolution = 4 -> 800   [] resolution = 5 -> 300  [] resolution = 6 -> 112
      [] resolution = 7 -> 40    [] resolution = 8 -> 16   [] resolution = 9 -> 6
      [] resolution = 10 -> 2    [] OTHER -> 40

\* The body shared by NASAEEClimateService._get_hexagons_in_bounds and
\* PrecipitationDroughtService._get_hexagons_in_bounds: the polygon
\* tessellation of the buffered bounds, or the dense grid when it raises.
HexagonsInBufferedBounds(bounds, resolution, buffer_factor, tess_fails) ==
    LET b == BufferedBounds(bounds, buffer_factor)
    IN  IF tess_fails
        THEN DenseGridCells(b.south, b.north, b.west, b.east, resolution,
                            DenseGridStep(resolution), DenseGridStep(resolution))
        ELSE H3ShapeToCells(b.south, b.north, b.west, b.east, resolution)

NasaGetHexagonsInBounds(bounds, resolution, tess_fails) ==
    HexagonsInBufferedBounds(bounds, resolution, NasaBufferFactor(resolution), tess_fails)

\* The ring of a feature: the boundary swapped to [lng, lat] and closed.
ClosedRing(boundary) ==
    LET coords == [k \in 1..Len(boundary) |-> <<boundary[k][2], boundary[k][1]>>]
    IN  Append(coords, coords[1])

\* NASAEEClimateService._to_geojson
NasaToGeojson(hexagons, year, scenario, ssp_scenario) ==
    LET features ==
            [k \in 1..Len(hexagons) |->
                [type |-> "Feature",
                 geometry |-> [type |-> "Polygon",
                               coordinates |-> <<ClosedRing(hexagons[k].boundary)>>],
                 properties |-> [hexId |-> hexagons[k].hex_id,
                                 lat |-> hexagons[k].lat,
                                 lon |-> hexagons[k].lon,
                                 tempAnomaly |-> hexagons[k].temp_anomaly,
                                 tempAnomalyF |-> hexagons[k].temp_anomaly_f,
                                 projected |-> BASELINE_TEMP_C + hexagons[k].temp_anomaly,
                                 scenario |-> scenario,
                                 sspScenario |-> ssp_scenario,
                                 year |-> year,
                                 model |-> DEFAULT_MODEL]]]
    IN  [type |-> "FeatureCollection",
         features |-> features,
         metadata |-> [source |-> "NASA NEX-GDDP-CMIP6 via Earth Engine",
                       model |-> DEFAULT_MODEL,
                       scenario |-> ssp_scenario,
                       year |-> year,
                       baselineTemp |-> BASELINE_TEMP_C,
                       count |-> Len(features),
                       isRealData |-> TRUE,
                       dataType |-> "real"]]

\* 'mean' not in feature['properties'] or feature['properties']['mean'] is None
NoMean(feature) == "mean" \notin DOMAIN feature.properties

HasMean(feature) == ~NoMean(feature)

\* A converter that logs inside its loop: one line per excluded cell.
ExcludedLogPerCell(missing_count) ==
    [k \in 1..missing_count |-> [msg |-> "Excluded hexagons with missing data",
                                 missing_count |-> 1]]

\* The log line after the loop: one line with the total, only when it is positive.
ExcludedLog(missing_count) ==
    IF missing_count > 0 THEN <<[msg |-> "Excluded hexagons with missing data",
                                 missing_count |-> missing_count]>>
    ELSE <<>>

\* An entry computed without the Kelvin offset.
NasaHexagonDataKelvin(feature) ==
    LET hex_id  == feature.properties.hexId
        anomaly == feature.properties.mean - BASELINE_TEMP_C
    IN  [hex_id |-> hex_id,
         lat |-> CellToLatLng(hex_id)[1],
         lon |-> CellToLatLng(hex_id)[2],
         boundary |-> CellToBoundary(hex_id),
         temp_anomaly |-> anomaly,
         temp_anomaly_f |-> RoundTenth(anomaly * 18)]

\* one entry of hexagon_data, for a feature that has a mean
NasaHexagonData(feature) ==
    LET hex_id  == feature.properties.hexId
        temp_c  == feature.properties.mean - KELVIN_OFFSET
        anomaly == temp_c - BASELINE_TEMP_C
    IN  [hex_id |-> hex_id,
         lat |-> CellToLatLng(hex_id)[1],
         lon |-> CellToLatLng(hex_id)[2],
         boundary |-> CellToBoundary(hex_id),
         temp_anomaly |-> anomaly,
         temp_anomaly_f |-> RoundTenth(anomaly * 18)]

\* A converter that fills a cell without a mean with the mean of the cells that
\* follow it in the list, instead of dropping it.
NasaConvertFillingGaps(features, year, scenario, ssp_scenario) ==
    LET kept   == SelectSeq(features, HasMean)
        filled == [k \in 1..Len(features) |->
                      IF NoMean(features[k]) /\ kept # <<>>
                      THEN [properties |-> [hexId |-> features[k].properties.hexId,
                                            mean |-> kept[1].properties.mean]]
                      ELSE features[k]]
        all    == SelectSeq(filled, HasMean)
    IN  [geojson |-> NasaToGeojson([k \in 1..Len(all) |-> NasaHexagonData(all[k])],
                                   year, scenario, ssp_scenario),
         log |-> <<>>]

\* NASAEEClimateService._convert_hexagon_features_to_geojson: the collection and
\* the lines it logs.
NasaConvertHexagonFeaturesToGeojson(features, year, scenario, ssp_scenario) ==
    LET kept          == SelectSeq(features, HasMean)
        missing_count == Len(SelectSeq(features, NoMean))
        hexagon_data  == [k \in 1..Len(kept) |-> NasaHexagonData(kept[k])]
    IN  [geojson |-> NasaToGeojson(hexagon_data, year, scenario, ssp_scenario),
         log |-> ExcludedLog(missing_count)]

\* NASAEEClimateService.get_temperature_projection
NasaGetTemperatureProjection(up, bounds, year, scenario, resolution, env) ==
    LET lat_span     == bounds.north - bounds.south
        lon_span     == bounds.east - bounds.west
        ssp_scenario == NasaSspScenario(scenario)
        hex_ids      == NasaGetHexagonsInBounds(bounds, resolution, env.tess_fails)
        n            == HexCount(hex_ids)
        features     == ReduceRegions(hex_ids, env)
        converted    == NasaConvertHexagonFeaturesToGeojson(features, year, scenario, ssp_scenario)
        tr1          == [NoTrace EXCEPT !.ee_calls = 1]
        tr2          == [NoTrace EXCEPT !.ee_calls = 2]
        tr3          == [NoTrace EXCEPT !.gen_calls = 1, !.batches = <<n>>, !.ee_calls = 3]
    IN  IF ~up
        THEN Raised("RuntimeError", Msg("Earth Engine not initialized"), NoTrace)
        ELSE IF BoundsTooLarge(lat_span, lon_span, resolution)
        THEN Raised("ValueError", TooLargeError(lat_span, lon_span, resolution), NoTrace)
        ELSE IF Fails(env, 1)
        THEN Raised("EEException", Msg("Earth Engine call failed"), Failing(tr1))
        ELSE IF env.image_count = 0
        THEN Raised("ValueError", Msg("No images found"), tr1)
        ELSE IF Fails(env, 2)
        THEN Raised("EEException", Msg("Earth Engine call failed"), Failing(tr2))
        ELSE IF Fails(env, 3)
        THEN Raised("EEException", Msg("Earth Engine call failed"), Failing(tr3))
        ELSE IF n > EE_MAX_ELEMENTS
        THEN Raised("EEException", Msg("Collection query aborted after accumulating over 5000 elements"),
                    Failing(tr3))
        ELSE IF n = 0
        THEN Raised("ValueError", Msg("No data retrieved for region"), tr3)
        ELSE Returned(converted.geojson, [tr3 EXCEPT !.log = converted.log])

\* ------------------------------------------------------------ precipitation_drought.py
\* Raw CHIRPS means tried, in hundredths of a mm/day
PrecipValues == {<<250, 250>>, <<250, 1200>>}

\* buffer_factors.get(resolution, 0.1), in percent
DroughtBufferFactor(resolution) ==
    CASE resolution = 1 -> 30 [] resolution = 2 -> 30 [] resolution = 3 -> 25
      [] resolution = 4 -> 25 [] resolution = 5 -> 20 [] resolution = 6 -> 15
      [] resolution = 7 -> 10 [] resolution = 8 -> 10 [] resolution = 9 -> 5
      [] resolution = 10 -> 5 [] OTHER -> 10

DroughtGetHexagonsInBounds(bounds, resolution, tess_fails) ==
    HexagonsInBufferedBounds(bounds, resolution, DroughtBufferFactor(resolution), tess_fails)

\* PrecipitationDroughtService._to_geojson
DroughtToGeojson(hexagons, metric, scenario, year) ==
    LET features ==
            [k \in 1..Len(hexagons) |->
                [type |-> "Feature",
                 geometry |-> [type |-> "Polygon",
                               coordinates |-> <<ClosedRing(hexagons[k].boundary)>>],
                 properties |-> [hexId |-> hexagons[k].hex_id,
                                 lat |-> hexagons[k].lat,
                                 lon |-> hexagons[k].lon,
                                 value |-> hexagons[k].value,
                                 precipitation |-> hexagons[k].precipitation,
                                 droughtIndex |-> hexagons[k].droughtIndex,
                                 soilMoisture |-> hexagons[k].soilMoisture,
                                 metric |-> metric,
                                 scenario |-> scenario,
                                 year |-> year]]]
    IN  [type |-> "FeatureCollection",
         features |-> features,
         metadata |-> [source |-> "CHIRPS via Earth Engine (proxy for LOCA2)",
                       metric |-> metric,
                       scenario |-> scenario,
                       year |-> year,
                       count |-> Len(features),
                       isRealData |-> TRUE,
                       dataType |-> "hexagons"]]

\* one entry of hexagon_data: value, precipitation and droughtIndex in
\* hundredths, soilMoisture in tenths of a percent
DroughtHexagonData(feature, metric) ==
    LET hex_id        == feature.properties.hexId
        precip_mm     == feature.properties.mean
        drought_index == Max(0, Min(1000, 1000 - precip_mm))
        soil_moisture == Min(1000, Max(0, precip_mm))
    IN  [hex_id |-> hex_id,
         lat |-> CellToLatLng(hex_id)[1],
         lon |-> CellToLatLng(hex_id)[2],
         boundary |-> CellToBoundary(hex_id),
         value |-> IF metric = "precipitation" THEN precip_mm
                   ELSE IF metric = "drought_index" THEN drought_index
                   ELSE soil_moisture * 10,
         precipitation |-> precip_mm,
         droughtIndex |-> drought_index,
         soilMoisture |-> soil_moisture]

\* PrecipitationDroughtService._convert_hexagon_features_to_geojson
DroughtConvertHexagonFeaturesToGeojson(features, metric, scenario, year) ==
    LET kept          == SelectSeq(features, HasMean)
        missing_count == Len(SelectSeq(features, NoMean))
        hexagon_data  == [k \in 1..Len(kept) |-> DroughtHexagonData(kept[k], metric)]
    IN  [geojson |-> DroughtToGeojson(hexagon_data, metric, scenario, year),
         log |-> ExcludedLog(missing_count)]

\* A method that generates the cells and calls the platform before it checks
\* the size of the box.
GetDroughtDataGeneratingFirst(up, bounds, scenario, year, metric, resolution, env) ==
    LET lat_span  == bounds.north - bounds.south
        lon_span  == bounds.east - bounds.west
        hex_ids   == DroughtGetHexagonsInBounds(bounds, resolution, env.tess_fails)
        n         == HexCount(hex_ids)
        features  == ReduceRegions(hex_ids, env)
        converted == DroughtConvertHexagonFeaturesToGeojson(features, metric, scenario, year)
        tr1       == [NoTrace EXCEPT !.gen_calls = 1, !.batches = <<n>>, !.ee_calls = 1]
    IN  IF ~up
        THEN Raised("RuntimeError", Msg("Earth Engine not initialized"), NoTrace)
        ELSE IF Fails(env, 1)
        THEN Raised("EEException", Msg("Earth Engine call failed"), Failing(tr1))
        ELSE IF BoundsTooLarge(lat_span, lon_span, resolution)
        THEN Raised("ValueError", TooLargeError(lat_span, lon_span, resolution), tr1)
        ELSE IF n > EE_MAX_ELEMENTS \/ n = 0
        THEN Raised("EEException", Msg("Earth Engine call failed"), Failing(tr1))
        ELSE Returned(converted.geojson, [tr1 EXCEPT !.log = converted.log])

\* PrecipitationDroughtService.get_drought_data
GetDroughtData(up, bounds, scenario, year, metric, resolution, env) ==
    LET lat_span  == bounds.north - bounds.south
        lon_span  == bounds.east - bounds.west
        hex_ids   == DroughtGetHexagonsInBounds(bounds, resolution, env.tess_fails)
        n         == HexCount(hex_ids)
        features  == ReduceRegions(hex_ids, env)
        converted == DroughtConvertHexagonFeaturesToGeojson(features, metric, scenario, year)
        tr1       == [NoTrace EXCEPT !.gen_calls = 1, !.batches = <<n>>, !.ee_calls = 1]
    IN  IF ~up
        THEN Raised("RuntimeError", Msg("Earth Engine not initialized"), NoTrace)
        ELSE IF BoundsTooLarge(lat_span, lon_span, resolution)
        THEN Raised("ValueError", TooLargeError(lat_span, lon_span, resolution), NoTrace)
        ELSE IF Fails(env, 1)
        THEN Raised("EEException", Msg("Earth Engine call failed"), Failing(tr1))
        ELSE IF n > EE_MAX_ELEMENTS
        THEN Raised("EEException", Msg("Collection query aborted after accumulating over 5000 elements"),
                    Failing(tr1))
        ELSE IF n = 0
        THEN Raised("ValueError", Msg("No data retrieved for region"), tr1)
        ELSE Returned(converted.geojson, [tr1 EXCEPT !.log = converted.log])

\* ------------------------------------------------------------ urban_heat_island.py
\* Raw Yale UHI intensities tried, in hundredths of a degree
UhiValues == {<<40, 40>>, <<40, 320>>}

\* Services that sample cell by cell make one blocking call per cell: the call
\* for the cell at rank k raises when the platform is down, when it is the
\* fail_at-th call or when k is in gaps, and returns None when all_absent.
SampleFails(env, k) == env.down \/ env.fail_at = k \/ k \in env.gaps

Sampled(env, k) == ~SampleFails(env, k) /\ ~env.all_absent

\* The ranks at which a sequence of booleans is true, ascending.
RanksWhere(flags) ==
    LET Holds(k) == flags[k]
    IN  SelectSeq([k \in 1..Len(flags) |-> k], Holds)

\* UrbanHeatIslandService._empty_geojson
UhiEmptyGeojson ==
    [type |-> "FeatureCollection",
     features |-> <<>>,
     metadata |-> [error |-> "Could not fetch UHI data", count |-> 0]]

\* UrbanHeatIslandService._classify_level, intensity in hundredths
UhiClassifyLevel(intensity) ==
    IF intensity < 50 THEN "none"
    ELSE IF intensity < 150 THEN "low"
    ELSE IF intensity < 300 THEN "moderate"
    ELSE IF intensity < 450 THEN "high"
    ELSE "extreme"

\* UrbanHeatIslandService._get_hexagons_in_bounds
UhiGetHexagonsInBounds(bounds, resolution) ==
    H3ShapeToCells(Deg(bounds.south), Deg(bounds.north), Deg(bounds.west), Deg(bounds.east),
                   resolution)

\* UrbanHeatIslandService._to_geojson
UhiToGeojson(hexagons, date, resolution) ==
    LET features ==
            [k \in 1..Len(hexagons) |->
                [type |-> "Feature",
                 geometry |-> [type |-> "Polygon",
                               coordinates |-> <<ClosedRing(hexagons[k].boundary)>>],
                 properties |-> [hex_id |-> hexagons[k].hex_id,
                                 heatIslandIntensity |-> hexagons[k].intensity,
                                 level |-> hexagons[k].level,
                                 center |-> hexagons[k].center,
                                 resolution |-> resolution]]]
    IN  [type |-> "FeatureCollection",
         features |-> features,
         metadata |-> [date |-> date,
                       resolution |-> resolution,
                       count |-> Len(features),
                       source |-> "Yale YCEO Urban Heat Island (Summer UHI v4)"]]

\* UrbanHeatIslandService.get_heat_island_data
GetHeatIslandData(up, bounds, date, resolution, env) ==
    LET clamped  == Max(0, Min(15, resolution))
        hex_ids  == UhiGetHexagonsInBounds(bounds, clamped)
        n        == HexCount(hex_ids)
        ranks    == RanksWhere([k \in 1..n |-> Sampled(env, k)])
        hexagons ==
            [k \in 1..Len(ranks) |->
                LET hex_id == HexAt(hex_ids, ranks[k])
                    intensity == RawMean(env, ranks[k])
                IN  [hex_id |-> hex_id,
                     center |-> <<CellToLatLng(hex_id)[2], CellToLatLng(hex_id)[1]>>,
                     boundary |-> CellToBoundary(hex_id),
                     intensity |-> intensity,
                     level |-> UhiClassifyLevel(intensity)]]
    IN  IF ~up
        THEN Returned(UhiEmptyGeojson, NoTrace)
        ELSE IF env.tess_fails
        THEN Returned(UhiEmptyGeojson, [NoTrace EXCEPT !.gen_calls = 1])
        ELSE Returned(UhiToGeojson(hexagons, date, clamped),
                      [NoTrace EXCEPT !.gen_calls = 1,
                                      !.ee_calls = n,
                                      !.failed = Len(RanksWhere([k \in 1..n |-> SampleFails(env, k)]))])

\* ------------------------------------------------------------ grace_groundwater.py
\* Raw GRACE trends tried, in thousandths of a cm/year
GraceValues == {<<-2500, -2500>>, <<-504, 300>>}

\* The platform has no change value for some cells that have a trend.
EnvChangeGaps ==
    {[NoEnv EXCEPT !.value = -504, !.value2 = 300, !.gaps = g[1], !.change_gaps = g[2]] :
        g \in {<<{}, {1}>>, <<{1}, {2}>>}}

\* random.sample keeps either end of the list.
EnvSampling == {NoEnv, [NoEnv EXCEPT !.sample_tail = TRUE]}

\* Cells kept when more than 5000 are generated
GRACE_SAMPLE_SIZE == 5000

\* The bounding boxes of the aquifer boundary files, which are rectangles here.
AquiferBBox(aquifer_id) ==
    CASE aquifer_id = "high_plains" -> [south |-> 36, north |-> 37, west |-> -102, east |-> -101]
      [] aquifer_id = "central_valley" -> [south |-> 36, north |-> 37, west |-> -121, east |-> -120]
      [] OTHER -> [south |-> 34, north |-> 35, west |-> -91, east |-> -90]

\* self.aquifer_geometries.keys()
AQUIFER_FILES == {"high_plains", "central_valley", "mississippi_embayment"}

\* edge_length_map.get(resolution, 0.01) * 0.4, in u
GraceStep(resolution) ==
    CASE resolution = 5 -> 300 [] resolution = 6 -> 112 [] resolution = 7 -> 40
      [] resolution = 8 -> 16  [] OTHER -> 40

\* GRACEGroundwaterService._get_hexagons_in_bounds
GraceGetHexagonsInBounds(bounds, resolution) ==
    DenseGridCells(Deg(bounds.south), Deg(bounds.north), Deg(bounds.west), Deg(bounds.east),
                   resolution, GraceStep(resolution), GraceStep(resolution))

\* random.sample(hex_ids, 5000)
RandomSample(hex_ids, size, env) ==
    [hex_ids EXCEPT !.skip = IF env.sample_tail THEN HexCount(hex_ids) - size ELSE 0,
                    !.take = size]

\* GRACEGroundwaterService._get_hexagons_in_aquifer: the cells of the bounding
\* box whose centre the aquifer shape contains.
GraceGetHexagonsInAquifer(bbox, resolution, tess_fails) ==
    LET south == Deg(bbox.south)
        north == Deg(bbox.north)
        west  == Deg(bbox.west)
        east  == Deg(bbox.east)
        p     == CellPitch(resolution)
        h     == p \div 2
        all   == IF tess_fails
                 THEN DenseGridCells(south, north, west, east, resolution,
                                     GraceStep(resolution), GraceStep(resolution))
                 ELSE H3ShapeToCells(south, north, west, east, resolution)
        InLat(i) == south <= (i * p) + h /\ (i * p) + h <= north
        InLon(j) == west <= (j * p) + h /\ (j * p) + h <= east
    IN  Cells(resolution, SelectSeq(all.rows, InLat), SelectSeq(all.cols, InLon))

\* GRACEGroundwaterService._classify_depletion, trend in thousandths
GraceClassifyDepletion(trend_cm_per_year) ==
    IF trend_cm_per_year < -2000 THEN "severe_depletion"
    ELSE IF trend_cm_per_year < -500 THEN "moderate_depletion"
    ELSE IF trend_cm_per_year < 500 THEN "stable"
    ELSE "recharge"

\* GRACEGroundwaterService._to_geojson
GraceToGeojson(hexagons, aquifer_id) ==
    LET features ==
            [k \in 1..Len(hexagons) |->
                [type |-> "Feature",
                 geometry |-> [type |-> "Polygon",
                               coordinates |-> <<ClosedRing(hexagons[k].boundary)>>],
                 properties |-> [hexId |-> hexagons[k].hex_id,
                                 lat |-> hexagons[k].lat,
                                 lon |-> hexagons[k].lon,
                                 trendCmPerYear |-> hexagons[k].trend_cm_per_year,
                                 totalChangeCm |-> hexagons[k].total_change_cm,
                                 status |-> hexagons[k].status,
                                 aquifer |-> aquifer_id]]]
    IN  [type |-> "FeatureCollection",
         features |-> features,
         metadata |-> [source |-> "NASA GRACE via Earth Engine",
                       aquifer |-> aquifer_id,
                       count |-> Len(features),
                       isRealData |-> TRUE]]

\* The two reducer results of a GRACE request: trend_features, and the raw
\* change of the cell at rank k (change_dict.get(hex_id)), absent or not.
GraceChangeAbsent(env, k) == env.all_absent \/ k \in env.change_gaps

GraceChange(env, k) == RawMean(env, k) * 17

\* GRACEGroundwaterService._convert_to_geojson, on the reducer results for
\* hex_ids: trends and changes rounded to hundredths
GraceConvertToGeojson(hex_ids, env, aquifer_id) ==
    LET n             == HexCount(hex_ids)
        Kept(e, k)    == HasData(e, k) /\ ~GraceChangeAbsent(e, k)
        Missing(e, k) == ~Kept(e, k)
        ranks         == RanksWhere([k \in 1..n |-> Kept(env, k)])
        missing_count == Len(RanksWhere([k \in 1..n |-> Missing(env, k)]))
        hexagon_data  ==
            [k \in 1..Len(ranks) |->
                LET hex_id == HexAt(hex_ids, ranks[k])
                    trend_cm_per_year == RawMean(env, ranks[k])
                IN  [hex_id |-> hex_id,
                     lat |-> CellToLatLng(hex_id)[1],
                     lon |-> CellToLatLng(hex_id)[2],
                     boundary |-> CellToBoundary(hex_id),
                     trend_cm_per_year |-> RoundTenth(trend_cm_per_year),
                     total_change_cm |-> RoundTenth(GraceChange(env, ranks[k])),
                     status |-> GraceClassifyDepletion(trend_cm_per_year)]]
    IN  [geojson |-> GraceToGeojson(hexagon_data, aquifer_id),
         log |-> ExcludedLog(missing_count)]

\* The part shared by the two GRACE methods after the cells are known: two
\* reduceRegions on the same collection, fetched by the calls base + 1 and
\* base + 2.
GraceReduceAndConvert(hex_ids, env, aquifer_id, base, tr) ==
    LET n         == HexCount(hex_ids)
        converted == GraceConvertToGeojson(hex_ids, env, aquifer_id)
        tr1       == [tr EXCEPT !.batches = <<n, n>>, !.ee_calls = base + 1]
        tr2       == [tr1 EXCEPT !.ee_calls = base + 2]
    IN  IF Fails(env, base + 1) \/ n > EE_MAX_ELEMENTS
        THEN Raised("EEException", Msg("Earth Engine call failed"), Failing(tr1))
        ELSE IF Fails(env, base + 2)
        THEN Raised("EEException", Msg("Earth Engine call failed"), Failing(tr2))
        ELSE Returned(converted.geojson, [tr2 EXCEPT !.log = converted.log])

\* GRACEGroundwaterService.get_groundwater_depletion_viewport
GetGroundwaterDepletionViewport(up, bounds, resolution, env) ==
    LET generated == GraceGetHexagonsInBounds(bounds, resolution)
        hex_ids   == IF HexCount(generated) > GRACE_SAMPLE_SIZE
                     THEN RandomSample(generated, GRACE_SAMPLE_SIZE, env)
                     ELSE generated
    IN  IF ~up
        THEN Raised("RuntimeError", Msg("Earth Engine not initialized"), NoTrace)
        ELSE GraceReduceAndConvert(hex_ids, env, "viewport", 0,
                                   [NoTrace EXCEPT !.gen_calls = 1])

\* GRACEGroundwaterService.get_groundwater_depletion, whose blocking calls
\* are the calls base + 1 .. base + 4 of the request
GetGroundwaterDepletion(up, aquifer_id, resolution, env, base) ==
    LET hex_ids == GraceGetHexagonsInAquifer(AquiferBBox(aquifer_id), resolution, env.tess_fails)
        called(k) == [NoTrace EXCEPT !.ee_calls = k]
    IN  IF ~up
        THEN Raised("RuntimeError", Msg("Earth Engine not initialized"), NoTrace)
        ELSE IF aquifer_id \notin AQUIFER_FILES
        THEN Raised("ValueError", Msg("Unknown aquifer"), NoTrace)
        ELSE IF Fails(env, base + 1)
        THEN Raised("EEException", Msg("Earth Engine call failed"), Failing(called(base + 1)))
        ELSE IF Fails(env, base + 2)
        THEN Raised("EEException", Msg("Earth Engine call failed"), Failing(called(base + 2)))
        ELSE GraceReduceAndConvert(hex_ids, env, aquifer_id, base + 2,
                                   [NoTrace EXCEPT !.gen_calls = 1])

\* ------------------------------------------------------------ metro_humidity.py
\* METRO_CITIES, coordinates in u
METRO_CITIES ==
    << [city |-> "Baltimore",   lat |-> 392904, lng |-> -766122],
       [city |-> "Houston",     lat |-> 297604, lng |-> -953698],
       [city |-> "Miami",       lat |-> 257617, lng |-> -801918],
       [city |-> "Phoenix",     lat |-> 334484, lng |-> -1120740],
       [city |-> "New York",    lat |-> 407128, lng |-> -740060],
       [city |-> "Chicago",     lat |-> 418781, lng |-> -876298],
       [city |-> "Los Angeles", lat |-> 340522, lng |-> -1182437],
       [city |-> "Atlanta",     lat |-> 337490, lng |-> -843880] >>

\* Platform values tried, as <<tasmax in hundredths of a kelvin, hurs in percent>>
MetroValues == {<<30000, 40>>, <<31500, 80>>}

\* MetroHumidityService._calculate_wet_bulb_temp (Stull 2011), in hundredths
\* of a degree, tabulated for the temperatures and humidities that occur
CalculateWetBulbTemp(temp_c, rh) ==
    CASE temp_c = 2685 /\ rh = 40 -> 1789
      [] temp_c = 2685 /\ rh = 80 -> 2411
      [] temp_c = 4185 /\ rh = 40 -> 3008
      [] temp_c = 4185 /\ rh = 80 -> 3851
      [] temp_c = 2500 /\ rh = 70 -> 2094
      [] temp_c = 2500 /\ rh = 30 -> 1459
      [] OTHER -> 1876

\* MetroHumidityService._celsius_to_fahrenheit, hundredths to hundredths
CelsiusToFahrenheit(celsius) == ((celsius * 9) \div 5) + 3200

\* MetroHumidityService._estimate_humidity
EstimateHumidity(lat, lng) ==
    IF lat < 350000 /\ lat > -350000 THEN 70
    ELSE IF lng < -1000000 THEN 30
    ELSE 55

\* MetroHumidityService._get_fallback_metrics
GetFallbackMetrics(year) ==
    [peak_humidity   |-> (5000 + ((year - 2025) * 30)) \div 100,
     wet_bulb_events |-> (1000 + ((year - 2025) * 50)) \div 100,
     humid_temp      |-> (11500 + ((year - 2025) * 40)) \div 100,
     days_over_100   |-> (3000 + ((year - 2025) * 80)) \div 100]

\* The feature of one city
MetroFeature(c, year, data) ==
    [type |-> "Feature",
     properties |-> [city |-> c.city, lat |-> c.lat, lng |-> c.lng,
                     humidity_projections |-> [year |-> year, data |-> data]],
     geometry |-> [type |-> "Point", coordinates |-> <<c.lng, c.lat>>]]

\* MetroHumidityService._get_fallback_data
GetFallbackData(year) ==
    [type |-> "FeatureCollection",
     name |-> "Metro Humidity Statistics (Fallback)",
     features |-> [k \in 1..Len(METRO_CITIES) |->
                      MetroFeature(METRO_CITIES[k], year, GetFallbackMetrics(year))]]

\* MetroHumidityService._fetch_climate_data for the city at rank k: the
\* fallback metrics when a platform call raises; otherwise metrics computed
\* from the sampled temperature (25.0 when there is none) and the sampled
\* humidity (estimated from the location when the band is missing)
FetchClimateData(k, year, env) ==
    LET c          == METRO_CITIES[k]
        temp_c     == IF env.all_absent THEN 2500 ELSE env.value - KELVIN_OFFSET
        temp_f     == CelsiusToFahrenheit(temp_c)
        rh         == IF env.all_absent THEN EstimateHumidity(c.lat, c.lng) ELSE env.value2
        wet_bulb_c == CalculateWetBulbTemp(temp_c, rh)
        wet_bulb_f == CelsiusToFahrenheit(wet_bulb_c)
    IN  IF SampleFails(env, k)
        THEN GetFallbackMetrics(year)
        ELSE [peak_humidity   |-> Min(100, Max(0, rh)),
              wet_bulb_events |-> IF wet_bulb_c > 3500
                                  THEN Max(0, ((wet_bulb_c - 3500) * 5) \div 100) ELSE 0,
              humid_temp      |-> wet_bulb_f \div 100,
              days_over_100   |-> IF temp_f > 10000
                                  THEN Max(0, ((temp_f - 10000) * 2) \div 100) ELSE 0]

\* A city whose metrics do not come from the platform
MetroSynthetic(env, k) == SampleFails(env, k) \/ env.all_absent

\* MetroHumidityService.get_metro_humidity_projections.  A city whose data
\* is fetched costs three blocking calls (the band names, tasmax, hurs), two
\* when there is no hurs band, one when the first of them raises.
GetMetroHumidityProjections(up, year, scenario, env) ==
    LET n      == Len(METRO_CITIES)
        failed == Len(RanksWhere([k \in 1..n |-> SampleFails(env, k)]))
    IN  IF ~up
        THEN Returned(GetFallbackData(year), [NoTrace EXCEPT !.synthetic = n])
        ELSE Returned([type |-> "FeatureCollection",
                       name |-> "Metro Humidity Statistics",
                       features |-> [k \in 1..n |->
                                        MetroFeature(METRO_CITIES[k], year,
                                                     FetchClimateData(k, year, env))]],
                      [NoTrace EXCEPT !.ee_calls = failed + ((n - failed)
                                                      * (IF env.all_absent THEN 2 ELSE 3)),
                                      !.failed = failed,
                                      !.synthetic = Len(RanksWhere([k \in 1..n |-> MetroSynthetic(env, k)]))])

\* ------------------------------------------------------------ topographic_relief.py
\* TopographicReliefService._get_style_params
GetStyleParams(style) ==
    CASE style = "dark" -> [azimuth |-> 315, elevation |-> 45]
      [] style = "depth" -> [azimuth |-> 315, elevation |-> 30]
      [] style = "dramatic" -> [azimuth |-> 300, elevation |-> 25]
      [] OTHER -> [azimuth |-> 315, elevation |-> 45]

\* TopographicReliefService._generate_simulated_hillshade
GenerateSimulatedHillshade(style) ==
    [success |-> TRUE, tile_url |-> "None", style |-> style,
     source |-> "Simulated (Earth Engine unavailable)"]

\* TopographicReliefService.get_hillshade_tiles: the result and the cache after
GetHillshadeTiles(up, cache, style, env) ==
    LET params == GetStyleParams(style)
        result == [success |-> TRUE, tile_url |-> env.url_format, style |-> style,
                   source |-> "Copernicus DEM GLO-30",
                   azimuth |-> params.azimuth, elevation_angle |-> params.elevation]
    IN  IF style \in DOMAIN cache
        THEN [value |-> cache[style], cache |-> cache, tr |-> NoTrace]
        ELSE IF ~up
        THEN [value |-> GenerateSimulatedHillshade(style), cache |-> cache,
              tr |-> [NoTrace EXCEPT !.synthetic = 1]]
        ELSE IF Fails(env, 1)
        THEN [value |-> GenerateSimulatedHillshade(style), cache |-> cache,
              tr |-> [NoTrace EXCEPT !.ee_calls = 1, !.failed = 1, !.synthetic = 1]]
        ELSE [value |-> result,
              cache |-> [st \in DOMAIN cache \cup {style} |->
                            IF st = style THEN result ELSE cache[st]],
              tr |-> [NoTrace EXCEPT !.ee_calls = 1]]

\* ------------------------------------------------------------ landsat_lst.py
\* get_tile_url without the cache lookup: every call generates.
GetTileUrlIgnoringCache(up, cache, season, color_scheme, env) ==
    LET result == [tile_url |-> env.url_format,
                   metadata |-> [season |-> season, color_scheme |-> color_scheme,
                                 image_count |-> env.image_count]]
    IN  IF ~up
        THEN [value |-> PyNone, cache |-> cache, tr |-> NoTrace]
        ELSE IF Fails(env, 1) \/ Fails(env, 2)
        THEN [value |-> PyNone, cache |-> cache,
              tr |-> [NoTrace EXCEPT !.ee_calls = 1, !.failed = 1]]
        ELSE [value |-> result,
              cache |-> [k \in DOMAIN cache \cup {season \o color_scheme} |->
                            IF k = season \o color_scheme THEN result ELSE cache[k]],
              tr |-> [NoTrace EXCEPT !.ee_calls = 2]]

\* LandsatLSTService.get_tile_url: the result, the cache after, the trace. A
\* string argument is the sequence of its words between underscores, so that
\* f"{season}_{color_scheme}" is the concatenation of the two sequences.
GetTileUrl(up, cache, season, color_scheme, env) ==
    LET cache_key   == season \o color_scheme
        season_name == IF season = <<"summer">> THEN "Summer (Jun-Aug)"
                       ELSE IF season = <<"winter">> THEN "Winter (Dec-Feb)"
                       ELSE "Recent (30 days)"
        metadata    == [season |-> season_name,
                        source |-> "Landsat 8/9 Collection 2 Level 2 - Global Median Composite",
                        coverage |-> "Global", color_scheme |-> color_scheme,
                        image_count |-> env.image_count]
        result      == [tile_url |-> env.url_format, metadata |-> metadata]
    IN  IF ~up
        THEN [value |-> PyNone, cache |-> cache, tr |-> NoTrace]
        ELSE IF cache_key \in DOMAIN cache
        THEN [value |-> cache[cache_key], cache |-> cache, tr |-> NoTrace]
        ELSE IF Fails(env, 1)
        THEN [value |-> PyNone, cache |-> cache,
              tr |-> [NoTrace EXCEPT !.ee_calls = 1, !.failed = 1]]
        ELSE IF Fails(env, 2)
        THEN [value |-> PyNone, cache |-> cache,
              tr |-> [NoTrace EXCEPT !.ee_calls = 2, !.failed = 1]]
        ELSE [value |-> result,
              cache |-> [k \in DOMAIN cache \cup {cache_key} |->
                            IF k = cache_key THEN result ELSE cache[k]],
              tr |-> [NoTrace EXCEPT !.ee_calls = 2]]

\* ------------------------------------------------------------ urban_expansion.py
\* UrbanExpansionService.get_urban_expansion_tile_url. Call 1 is the test
\* getMapId of the Chen dataset, whose failure selects the GHSL fallback, and
\* call 2 the getMapId of the image to show. In the fallback the tier radii
\* are assigned only when years_from_2020 > 0, and the line logged after the
\* branch reads them: for any other year the read raises UnboundLocalError,
\* which the outer except turns into None.
GetUrbanExpansionTileUrl(up, year, scenario, env) ==
    LET chen_unavailable == Fails(env, 1)
        years_from_2020  == year - 2020
        source_name      == IF chen_unavailable THEN "GHSL Tiered Urban Growth"
                            ELSE "Chen et al. 2020 Urban Expansion"
        urban_image      == IF ~chen_unavailable THEN "chen"
                            ELSE IF years_from_2020 > 0 THEN "ghsl_2020 + tiers"
                            ELSE "ghsl_2020"
        tr1              == [NoTrace EXCEPT !.ee_calls = 1,
                                            !.failed = IF chen_unavailable THEN 1 ELSE 0]
    IN  IF ~up
        THEN [value |-> PyNone, tr |-> NoTrace]
        ELSE IF chen_unavailable /\ ~(years_from_2020 > 0)
        THEN [value |-> PyNone, tr |-> tr1]
        ELSE IF Fails(env, 2)
        THEN [value |-> PyNone, tr |-> [tr1 EXCEPT !.ee_calls = 2, !.failed = @ + 1]]
        ELSE [value |-> [tile_url |-> env.url_format,
                         metadata |-> [year |-> year, scenario |-> scenario,
                                       source |-> source_name, image |-> urban_image,
                                       resolution |-> "1 km"]],
              tr |-> [tr1 EXCEPT !.ee_calls = 2]]

\* ------------------------------------------------------------ services/wet_bulb_service.py
\* Raw wet-bulb temperatures tried, in hundredths of a degree
WetBulbValues == {<<2350, 2350>>, <<2350, 3510>>}

\* edge_len * 0.4, in u
WetBulbStep(resolution) ==
    CASE resolution = 4 -> 800 [] resolution = 5 -> 300 [] resolution = 6 -> 112
      [] resolution = 7 -> 40  [] OTHER -> 40

\* services WetBulbService._get_hexagons_in_bounds
WetBulbGetHexagonsInBounds(bounds, resolution) ==
    DenseGridCells(Deg(bounds.south), Deg(bounds.north), Deg(bounds.west), Deg(bounds.east),
                   resolution, WetBulbStep(resolution), WetBulbStep(resolution))

\* The risk classes of services WetBulbService.get_wet_bulb_hexagons
WetBulbRisk(wbt) ==
    IF wbt >= 3500 THEN "Extreme (Fatal)"
    ELSE IF wbt >= 3200 THEN "Critical"
    ELSE IF wbt >= 2800 THEN "Danger"
    ELSE IF wbt >= 2400 THEN "High"
    ELSE "Low"

\* "Normalize bounds": a (west, south, east, north) tuple is unpacked in that
\* order, a dict is read by its keys.
WetBulbNormalizeBounds(bounds) ==
    IF "tuple" \in DOMAIN bounds
    THEN [west |-> bounds.tuple[1], south |-> bounds.tuple[2],
          east |-> bounds.tuple[3], north |-> bounds.tuple[4]]
    ELSE [west |-> bounds.west, south |-> bounds.south,
          east |-> bounds.east, north |-> bounds.north]

\* self.SCENARIOS.get(scenario, 'ssp245') of services WetBulbService
WetBulbSspScenario(scenario) ==
    CASE scenario = "rcp26" -> "ssp126"
      [] scenario = "rcp45" -> "ssp245"
      [] scenario = "rcp85" -> "ssp585"
      [] OTHER -> "ssp245"

\* services WetBulbService.get_wet_bulb_hexagons; wet_bulb_f in tenths
ServicesGetWetBulbHexagons(up, bounds, year, scenario, resolution, env) ==
    LET hex_ids  == WetBulbGetHexagonsInBounds(WetBulbNormalizeBounds(bounds), resolution)
        n        == HexCount(hex_ids)
        features == SelectSeq(ReduceRegions(hex_ids, env), HasMean)
        tr1      == [NoTrace EXCEPT !.gen_calls = 1, !.batches = <<n>>, !.ee_calls = 1,
                                    !.scenario_filter = WetBulbSspScenario(scenario)]
    IN  IF ~up
        THEN Raised("RuntimeError", Msg("Earth Engine not initialized"), NoTrace)
        ELSE IF Fails(env, 1) \/ n > EE_MAX_ELEMENTS
        THEN Raised("EEException", Msg("Earth Engine call failed"), Failing(tr1))
        ELSE Returned(
                [type |-> "FeatureCollection",
                 features |->
                    [k \in 1..Len(features) |->
                        LET wbt    == features[k].properties.mean
                            hex_id == features[k].properties.hexId
                        IN  [type |-> "Feature",
                             geometry |-> [type |-> "Polygon",
                                           coordinates |-> <<ClosedRing(CellToBoundary(hex_id))>>],
                             properties |-> [hexId |-> hex_id,
                                             wet_bulb_c |-> wbt,
                                             wet_bulb_f |-> ((wbt * 18) + 32000 + 50) \div 100,
                                             risk_level |-> WetBulbRisk(wbt),
                                             year |-> year,
                                             scenario |-> scenario]]]],
                tr1)

\* ------------------------------------------------------------ wet_bulb_service.py
\* WetBulbService._generate_h3_hexagons: twenty steps across each span
GenerateH3Hexagons(bounds, resolution) ==
    IF bounds.south > bounds.north THEN Cells(resolution, <<>>, <<>>)
    ELSE DenseGridCells(Deg(bounds.south), Deg(bounds.north), Deg(bounds.west), Deg(bounds.east),
                   resolution, (bounds.north - bounds.south) * 500,
                   (bounds.east - bounds.west) * 500)

\* The loops of _generate_h3_hexagons never end: a step is zero in a loop that
\* is entered.
GenerateH3HexagonsDiverges(bounds) ==
    \/ bounds.south = bounds.north
    \/ bounds.south < bounds.north /\ bounds.west = bounds.east

\* WetBulbService._classify_danger
ClassifyDanger(wbt_c) ==
    IF wbt_c >= 3500 THEN "extreme"
    ELSE IF wbt_c >= 3200 THEN "very_high"
    ELSE IF wbt_c >= 2800 THEN "high"
    ELSE IF wbt_c >= 2400 THEN "moderate"
    ELSE "low"

\* hex_boundary = [[lng, lat] for lat, lng in boundary_latlngs]
SwappedBoundary(boundary) == [k \in 1..Len(boundary) |-> <<boundary[k][2], boundary[k][1]>>]

\* WetBulbService.get_wet_bulb_hexagons, for bounds whose generation ends
RootGetWetBulbHexagons(bounds, year, scenario, resolution, env) ==
    LET hexagons == GenerateH3Hexagons(bounds, resolution)
        n        == HexCount(hexagons)
        ranks    == RanksWhere([k \in 1..n |-> Sampled(env, k)])
    IN  Returned(
            [type |-> "FeatureCollection",
             features |->
                [k \in 1..Len(ranks) |->
                    LET hex_id    == HexAt(hexagons, ranks[k])
                        wbt_value == RawMean(env, ranks[k])
                    IN  [type |-> "Feature",
                         geometry |-> [type |-> "Polygon",
                                       coordinates |-> <<SwappedBoundary(CellToBoundary(hex_id))>>],
                         properties |-> [hex_id |-> hex_id,
                                         wet_bulb_c |-> wbt_value,
                                         wet_bulb_f |-> RoundTenth(wbt_value * 18) + 3200,
                                         year |-> year,
                                         scenario |-> scenario,
                                         danger_level |-> ClassifyDanger(wbt_value)]]],
             metadata |-> [year |-> year, scenario |-> scenario, resolution |-> resolution,
                           bounds |-> bounds]],
            [NoTrace EXCEPT !.gen_calls = 1,
                            !.ee_calls = n,
                            !.failed = Len(RanksWhere([k \in 1..n |-> SampleFails(env, k)]))])

\* ------------------------------------------------------------ climate_server.py
\* jsonify(...) with its status code
Response(status, body) == [status |-> status, body |-> body]

ErrorBody(what) == [success |-> FALSE, error |-> what]

\* The two except clauses that end the hexagon endpoints: ValueError answers
\* 400, any other exception 500.
ExceptionResponse(raised) ==
    IF raised.type = "ValueError"
    THEN Response(400, ErrorBody([what |-> "Invalid parameter", cause |-> raised.what]))
    ELSE Response(500, ErrorBody(raised.what))

\* not (-90 <= south < north <= 90)
InvalidLatitudeBounds(r) == ~(-90 <= r.south /\ r.south < r.north /\ r.north <= 90)

\* not (-180 <= west < east <= 180)
InvalidLongitudeBounds(r) == ~(-180 <= r.west /\ r.west < r.east /\ r.east <= 180)

BoundsDict(r) == [north |-> r.north, south |-> r.south, east |-> r.east, west |-> r.west]

\* The validation of temperature_projection, in the order of the code: the
\* 400 body of the first failing check, or "ok".
TemperatureValidation(r) ==
    IF ~r.has_bounds THEN "Missing required parameters: north, south, east, west"
    ELSE IF InvalidLatitudeBounds(r) THEN "Invalid latitude bounds"
    ELSE IF InvalidLongitudeBounds(r) THEN "Invalid longitude bounds"
    ELSE IF ~(2020 <= r.year /\ r.year <= 2100) THEN "Year must be between 2020 and 2100"
    ELSE IF r.scenario \notin {"rcp26", "rcp45", "rcp85"}
    THEN "Scenario must be one of: rcp26, rcp45, rcp85"
    ELSE IF ~(1 <= r.resolution /\ r.resolution <= 10) THEN "Resolution must be between 1 and 10"
    ELSE "ok"

\* temperature_projection(): the response and the trace of the service call
TemperatureProjectionHandler(up, r, env) ==
    LET check == TemperatureValidation(r)
        out   == NasaGetTemperatureProjection(up, BoundsDict(r), r.year, r.scenario,
                                              r.resolution, env)
    IN  IF check # "ok"
        THEN [resp |-> Response(400, ErrorBody(Msg(check))), tr |-> NoTrace]
        ELSE IF out.outcome = "raise"
        THEN [resp |-> ExceptionResponse(out), tr |-> out.tr]
        ELSE [resp |-> Response(200,
                          [success |-> TRUE,
                           data |-> out.value,
                           metadata |-> [bounds |-> BoundsDict(r),
                                         year |-> r.year,
                                         scenario |-> r.scenario,
                                         resolution |-> r.resolution,
                                         feature_count |-> Len(out.value.features)]]),
              tr |-> out.tr]

\* The validation of precipitation_drought, in the order of the code
DroughtValidation(r) ==
    IF ~r.has_bounds THEN "Missing required parameters: north, south, east, west"
    ELSE IF InvalidLatitudeBounds(r) THEN "Invalid latitude bounds"
    ELSE IF InvalidLongitudeBounds(r) THEN "Invalid longitude bounds"
    ELSE IF r.metric \notin {"precipitation", "drought_index", "soil_moisture"}
    THEN "Invalid metric"
    ELSE IF ~(1 <= r.resolution /\ r.resolution <= 10) THEN "Resolution must be between 1 and 10"
    ELSE "ok"

\* precipitation_drought()
PrecipitationDroughtHandler(up, r, env) ==
    LET check == DroughtValidation(r)
        out   == GetDroughtData(up, BoundsDict(r), r.scenario, r.year, r.metric,
                                r.resolution, env)
    IN  IF check # "ok"
        THEN [resp |-> Response(400, ErrorBody(Msg(check))), tr |-> NoTrace]
        ELSE IF out.outcome = "raise"
        THEN [resp |-> ExceptionResponse(out), tr |-> out.tr]
        ELSE [resp |-> Response(200,
                          [success |-> TRUE,
                           data |-> out.value,
                           metadata |-> [bounds |-> BoundsDict(r),
                                         scenario |-> r.scenario,
                                         year |-> r.year,
                                         metric |-> r.metric,
                                         resolution |-> r.resolution,
                                         feature_count |-> Len(out.value.features)]]),
              tr |-> out.tr]

\* The validation of urban_heat_island, in the order of the code
HeatIslandValidation(r) ==
    IF ~r.has_bounds THEN "Missing required parameters: north, south, east, west"
    ELSE IF InvalidLatitudeBounds(r) THEN "Invalid latitude bounds"
    ELSE IF InvalidLongitudeBounds(r) THEN "Invalid longitude bounds"
    ELSE IF ~(1 <= r.resolution /\ r.resolution <= 10) THEN "Resolution must be between 1 and 10"
    ELSE "ok"

\* urban_heat_island(); the service raises nothing
UrbanHeatIslandHandler(up, r, env) ==
    LET check == HeatIslandValidation(r)
        out   == GetHeatIslandData(up, BoundsDict(r), r.date, r.resolution, env)
    IN  IF check # "ok"
        THEN [resp |-> Response(400, ErrorBody(Msg(check))), tr |-> NoTrace]
        ELSE [resp |-> Response(200,
                          [success |-> TRUE,
                           data |-> out.value,
                           metadata |-> [bounds |-> BoundsDict(r),
                                         date |-> r.date,
                                         resolution |-> r.resolution,
                                         feature_count |-> Len(out.value.features)]]),
              tr |-> out.tr]

\* The checks of groundwater_depletion before it calls the service
GroundwaterValidation(r) ==
    IF r.mode = "bounds"
    THEN IF ~r.has_bounds THEN "Bounds must include: west, east, south, north"
         ELSE IF r.resolution < 6 \/ r.resolution > 8
         THEN "Resolution must be between 6 and 8 for viewport visualization"
         ELSE "ok"
    ELSE IF r.resolution < 5 \/ r.resolution > 7
         THEN "Resolution must be between 5 and 7 for aquifer-scale visualization"
         ELSE IF r.aquifer \notin AQUIFER_FILES \cup {"all"} THEN "Invalid aquifer"
         ELSE "ok"

\* The except clauses of groundwater_depletion
GroundwaterExceptionResponse(raised) ==
    IF raised.type = "ValueError"
    THEN Response(400, [error |-> raised.what])
    ELSE Response(500, [error |-> Msg("Failed to fetch groundwater data")])

\* aquifers_to_fetch
AquifersToFetch == <<"high_plains", "central_valley", "mississippi_embayment">>

\* One turn of the loop of the 'all' branch: all_features and the trace of
\* the request after the call that gave data.  A failing call is skipped, the
\* features of a succeeding one are appended.
AfterAquifer(acc, data) ==
    [features |-> IF data.outcome = "return" THEN acc.features \o data.value.features
                  ELSE acc.features,
     tr |-> [scenario_filter |-> "none", region |-> <<>>,
             gen_calls |-> acc.tr.gen_calls + data.tr.gen_calls,
             batches |-> acc.tr.batches \o data.tr.batches,
             ee_calls |-> Max(acc.tr.ee_calls, data.tr.ee_calls),
             failed |-> acc.tr.failed + data.tr.failed,
             synthetic |-> 0,
             log |-> acc.tr.log \o data.tr.log]]

\* The loop from the k-th aquifer on, acc holding all_features and the trace so
\* far.  (The singleton sets give names to the values of acc and of the call.)
RECURSIVE FetchAquifersFrom(_, _, _, _, _)
FetchAquifersFrom(k, up, resolution, env, acc) ==
    IF k > Len(AquifersToFetch) THEN acc
    ELSE FetchAquifersFrom(k + 1, up, resolution, env,
            CHOOSE next \in
                UNION {{AfterAquifer(a, data) :
                           data \in {GetGroundwaterDepletion(up, AquifersToFetch[k], resolution,
                                                             env, a.tr.ee_calls)}} :
                        a \in {acc}} : TRUE)

\* The 'all' branch: the three aquifers one after the other, a failing one
\* skipped, the features of the others merged.
GroundwaterAllAquifers(up, resolution, env) ==
    LET fetched == FetchAquifersFrom(1, up, resolution, env, [features |-> <<>>, tr |-> NoTrace])
    IN  [resp |-> Response(200,
                     [type |-> "FeatureCollection",
                      features |-> fetched.features,
                      metadata |-> [source |-> "NASA GRACE via Earth Engine",
                                    aquifers |-> "all",
                                    count |-> Len(fetched.features),
                                    isRealData |-> TRUE]]),
         tr |-> fetched.tr]

\* groundwater_depletion()
GroundwaterDepletionHandler(up, r, env) ==
    LET check == GroundwaterValidation(r)
        out   == IF r.mode = "bounds"
                 THEN GetGroundwaterDepletionViewport(up, BoundsDict(r), r.resolution, env)
                 ELSE GetGroundwaterDepletion(up, r.aquifer, r.resolution, env, 0)
    IN  IF check # "ok"
        THEN [resp |-> Response(400, [error |-> Msg(check)]), tr |-> NoTrace]
        ELSE IF r.mode = "aquifer" /\ r.aquifer = "all"
        THEN GroundwaterAllAquifers(up, r.resolution, env)
        ELSE IF out.outcome = "raise"
        THEN [resp |-> GroundwaterExceptionResponse(out), tr |-> out.tr]
        ELSE [resp |-> Response(200, out.value), tr |-> out.tr]

\* The validation of metro_humidity
MetroValidation(r) ==
    IF ~(2015 <= r.year /\ r.year <= 2100) THEN "Year must be between 2015 and 2100"
    ELSE IF r.scenario \notin {"ssp126", "ssp245", "ssp370", "ssp585"}
    THEN "Scenario must be one of: ssp126, ssp245, ssp370, ssp585"
    ELSE "ok"

\* metro_humidity(); the service raises nothing
MetroHumidityHandler(up, r, env) ==
    LET check == MetroValidation(r)
        out   == GetMetroHumidityProjections(up, r.year, r.scenario, env)
    IN  IF check # "ok"
        THEN [resp |-> Response(400, ErrorBody(Msg(check))), tr |-> NoTrace]
        ELSE [resp |-> Response(200,
                          [success |-> TRUE,
                           data |-> out.value,
                           metadata |-> [year |-> r.year,
                                         scenario |-> r.scenario,
                                         city_count |-> Len(out.value.features),
                                         source |-> "NASA NEX-GDDP-CMIP6"]]),
              tr |-> out.tr]

\* topographic_relief_tiles(): the response, the cache after, the trace
TopographicReliefHandler(up, cache, r, env) ==
    LET out == GetHillshadeTiles(up, cache, r.style, env)
    IN  IF r.style \notin {"classic", "dark", "depth", "dramatic"}
        THEN [resp |-> Response(400, ErrorBody(Msg("Invalid style"))), cache |-> cache,
              tr |-> NoTrace]
        ELSE [resp |-> Response(200, out.value), cache |-> out.cache, tr |-> out.tr]

\* "Build bounds dict" of the three tile endpoints: request.args.get(name,
\* type=float) or the default, where args holds the supplied bounds.
TileBoundsDict(args) ==
    [north |-> IF "north" \in DOMAIN args /\ args["north"] # 0 THEN args["north"] ELSE 90,
     south |-> IF "south" \in DOMAIN args /\ args["south"] # 0 THEN args["south"] ELSE -90,
     east  |-> IF "east" \in DOMAIN args /\ args["east"] # 0 THEN args["east"] ELSE 180,
     west  |-> IF "west" \in DOMAIN args /\ args["west"] # 0 THEN args["west"] ELSE -180]

\* temperature_projection_tiles(), urban_heat_island_tiles() and
\* precipitation_drought_tiles(): the validation of the endpoint, then
\* get_tile_url of its service, which returns None when Earth Engine is not
\* initialised or when getMapId (call 1) or the reduceRegion of the regional
\* statistics over the bounds (call 2) raises.
TileHandler(up, r, env) ==
    LET check  == CASE r.endpoint = "temperature_projection_tiles" ->
                        IF ~(2020 <= r.year /\ r.year <= 2100)
                        THEN "Year must be between 2020 and 2100"
                        ELSE IF r.scenario \notin {"rcp26", "rcp45", "rcp85"}
                        THEN "Scenario must be one of: rcp26, rcp45, rcp85"
                        ELSE IF r.mode \notin {"anomaly", "actual"}
                        THEN "Mode must be one of: anomaly, actual"
                        ELSE "ok"
                   [] r.endpoint = "precipitation_drought_tiles" ->
                        IF r.metric \notin {"precipitation", "drought_index", "soil_moisture"}
                        THEN "Invalid metric"
                        ELSE "ok"
                   [] OTHER -> "ok"
        bounds == TileBoundsDict(r.args)
        called == [NoTrace EXCEPT !.region = bounds]
    IN  IF check # "ok"
        THEN [resp |-> Response(400, ErrorBody(Msg(check))), tr |-> NoTrace]
        ELSE IF ~up
        THEN [resp |-> Response(500, ErrorBody(Msg("Could not generate tile URL"))),
              tr |-> called]
        ELSE IF Fails(env, 1)
        THEN [resp |-> Response(500, ErrorBody(Msg("Could not generate tile URL"))),
              tr |-> [called EXCEPT !.ee_calls = 1, !.failed = 1]]
        ELSE IF Fails(env, 2)
        THEN [resp |-> Response(500, ErrorBody(Msg("Could not generate tile URL"))),
              tr |-> [called EXCEPT !.ee_calls = 2, !.failed = 1]]
        ELSE [resp |-> Response(200, [success |-> TRUE, tile_url |-> env.url_format,
                                      metadata |-> [dataType |-> "tiles"]]),
              tr |-> [called EXCEPT !.ee_calls = 2]]

\* The result of a call of a service method from a script
CallResult(out) ==
    IF out.outcome = "raise"
    THEN Response(0, [outcome |-> "raise", type |-> out.type, what |-> out.what])
    ELSE Response(0, [outcome |-> "return", value |-> out.value])

\* ------------------------------------------------------------ requests
\* The query strings tried: boxes with a corner at 40N 75W and spans from -1
\* to MaxSpan degrees, a box touching each pole, boxes leaving the map, a 3 x 3
\* degree region and the 50 x 50 degree box of a zoomed-out map.
Spans == -1..MaxSpan

Box(s, n, w, e) == [has_bounds |-> TRUE, south |-> s, north |-> n, west |-> w, east |-> e]

SmallBoxes == {Box(40, 40 + dlat, -75, -75 + dlon) : dlat \in Spans, dlon \in Spans}

PolarBox == Box(89, 90, -75, -74)

SouthPolarBox == Box(-90, -89, -75, -74)

OffMapBoxes == {Box(89, 91, -75, -74), Box(40, 41, 179, 181)}
\* A box the validation accepts whose east edge is the antimeridian
DateLineBox == Box(40, 41, 179, 180)

WideBox == Box(0, 50, -75, -25)

\* a 3 x 3 degree region, asked for at resolution 6
RegionBox == Box(40, 43, -75, -72)

\* the New York area, asked for at resolution 7
NycBox == Box(40, 41, -75, -73)

NoBox == [has_bounds |-> FALSE, south |-> 0, north |-> 0, west |-> 0, east |-> 0]

Years == {2050, 2101}

Scenarios == {"rcp45", "ssp585"}

Resolutions == {0, 5, 7}

CoarseResolutions == {0, 5}

Metrics == {"drought_index", "precipitation", "soil_moisture", "rainfall"}

ProjectionQueries ==
    {[year |-> y, scenario |-> sc, metric |-> "drought_index", resolution |-> res] :
        y \in Years, sc \in Scenarios, res \in Resolutions}

DroughtQueries ==
    {[year |-> 2050, scenario |-> "rcp45", metric |-> m, resolution |-> res] :
        m \in Metrics, res \in CoarseResolutions}

\* b @@ q for records, with the endpoint name
Query(endpoint, b, q) ==
    [endpoint |-> endpoint, has_bounds |-> b.has_bounds, south |-> b.south, north |-> b.north,
     west |-> b.west, east |-> b.east, year |-> q.year, scenario |-> q.scenario,
     metric |-> q.metric, resolution |-> q.resolution]

\* The requests of urban_heat_island
HeatIslandRequests ==
    {[endpoint |-> "urban_heat_island", has_bounds |-> b.has_bounds, south |-> b.south,
      north |-> b.north, west |-> b.west, east |-> b.east, date |-> "2024-07-01",
      resolution |-> res] :
        b \in SmallBoxes \cup OffMapBoxes \cup {PolarBox, NoBox}, res \in CoarseResolutions}

\* The requests of groundwater_depletion: with a bounds parameter (NoBox lacks
\* a key), among them one that generates more than 5000 cells, or with an
\* aquifer name
ViewportResolutions == {5, 6}

SampledBox == Box(40, 41, -75, -73)

AquiferResolutions == {4, 5}

Aquifers == {"central_valley", "all", "ogallala"}

ViewportRequest(b, res) ==
    [endpoint |-> "groundwater_depletion", mode |-> "bounds", has_bounds |-> b.has_bounds,
     south |-> b.south, north |-> b.north, west |-> b.west, east |-> b.east,
     resolution |-> res]

GroundwaterRequests ==
    {ViewportRequest(b, res) :
        b \in SmallBoxes \cup OffMapBoxes \cup {PolarBox, NoBox}, res \in ViewportResolutions}
    \cup {ViewportRequest(SampledBox, 8)}
    \cup {[endpoint |-> "groundwater_depletion", mode |-> "aquifer", aquifer |-> a,
           resolution |-> res] : a \in Aquifers, res \in AquiferResolutions}

\* The requests of a hexagon endpoint whose other parameters range over queries
HexagonRequests(endpoint, queries) ==
    {Query(endpoint, b, q) :
        b \in SmallBoxes \cup OffMapBoxes \cup {PolarBox, SouthPolarBox, NoBox}, q \in queries}
    \cup {Query(endpoint, WideBox, q) : q \in {p \in queries : p.resolution \in {5, 7}}}
    \cup {Query(endpoint, RegionBox, [q EXCEPT !.resolution = 6]) : q \in queries}
    \cup {Query(endpoint, NycBox, [q EXCEPT !.resolution = 7]) : q \in queries}
    \cup {Query(endpoint, DateLineBox, [q EXCEPT !.resolution = 5]) : q \in queries}

\* The requests of metro_humidity
MetroRequests ==
    {[endpoint |-> "metro_humidity", year |-> y, scenario |-> sc] :
        y \in {2014, 2050}, sc \in {"ssp245", "rcp45"}}

\* The requests of topographic_relief_tiles
ReliefStyles == {"classic", "dark", "depth", "dramatic", "neon"}

ReliefRequests == {[endpoint |-> "topographic_relief_tiles", style |-> st] : st \in ReliefStyles}

\* The requests of a tile endpoint: each bound absent, 0 or 10
TileRequests(endpoint) ==
    {[endpoint |-> endpoint, args |-> a, year |-> y, scenario |-> "rcp45", mode |-> "anomaly",
      metric |-> m, season |-> "summer", color_scheme |-> "temperature"] :
        a \in UNION {[names -> {0, 10}] : names \in SUBSET {"north", "south", "east", "west"}},
        y \in IF endpoint = "temperature_projection_tiles" THEN {2050, 2101} ELSE {2050},
        m \in IF endpoint = "precipitation_drought_tiles" THEN {"drought_index", "rainfall"}
              ELSE {"drought_index"}}

\* The calls of LandsatLSTService.get_tile_url: the seasons and colour schemes
\* of its docstring, and two calls with other strings, "summer_heat" with
\* "urban" and "summer" with "heat_urban".
LandsatCalls ==
    {[endpoint |-> "landsat_get_tile_url", season |-> <<se>>, color_scheme |-> <<cs>>] :
        se \in {"summer", "winter"}, cs \in {"temperature", "heat", "urban"}}
    \cup {[endpoint |-> "landsat_get_tile_url", season |-> <<"summer", "heat">>,
           color_scheme |-> <<"urban">>],
          [endpoint |-> "landsat_get_tile_url", season |-> <<"summer">>,
           color_scheme |-> <<"heat", "urban">>]}

\* The calls of get_wet_bulb_hexagons made by a script, with the bounds given
\* as a (west, south, east, north) tuple or as a dict
WetBulbCalls(endpoint, scenarios, resolutions, forms) ==
    {[endpoint |-> endpoint, has_bounds |-> TRUE, south |-> b.south, north |-> b.north,
      west |-> b.west, east |-> b.east, year |-> 2050, scenario |-> sc, resolution |-> res,
      bounds_form |-> form] :
        b \in SmallBoxes, sc \in scenarios, res \in resolutions, form \in forms}

\* The bounds argument of a call
WetBulbBoundsArgument(r) ==
    IF r.bounds_form = "tuple" THEN [tuple |-> <<r.west, r.south, r.east, r.north>>]
    ELSE BoundsDict(r)

\* ------------------------------------------------------------ state machine
Services ==
    {"climate_service", "drought_service", "groundwater_service", "heat_island_service",
     "metro_humidity_service", "relief_service", "wet_bulb_service", "landsat_service",
     "urban_expansion_service"}

NoRequest == [endpoint |-> "none"]

NoResponse == Response(0, [success |-> FALSE])

\* self.cached_tiles = {} of TopographicReliefService
NoTiles == [st \in {} |-> NoRequest]

\* The services are constructed once, at import; the constructors share the
\* credentials, so Earth Engine initialisation succeeds or fails for all.
Init ==
    /\ \E up \in BOOLEAN : initialized = [s \in Services |-> up]
    /\ phase = "idle"
    /\ req = NoRequest
    /\ resp = NoResponse
    /\ ee_env = NoEnv
    /\ trace = NoTrace
    /\ cached_tiles = NoTiles
    /\ lst_tiles = NoTiles
    /\ threads = [t \in 1..MaxThreads |-> [pc |-> "idle"]]

\* The environments that can make a difference to a request: all of them when
\* the handler gets to the platform, a single one when it does not.
EnvsFor(reaches, ncalls, values) == IF reaches THEN Envs(ncalls, values) ELSE {NoEnv}

\* GET /api/climate/temperature-projection
temperature_projection ==
    /\ phase = "idle"
    /\ \E r \in HexagonRequests("temperature_projection", ProjectionQueries) :
         \E e \in EnvsFor(/\ initialized["climate_service"]
                          /\ TemperatureValidation(r) = "ok"
                          /\ ~BoundsTooLarge(r.north - r.south, r.east - r.west, r.resolution),
                          3, TasmaxValues) :
            LET h == TemperatureProjectionHandler(initialized["climate_service"], r, e)
            IN  /\ req' = r
                /\ ee_env' = e
                /\ resp' = h.resp
                /\ trace' = h.tr
    /\ phase' = "responded"
    /\ UNCHANGED <<initialized, cached_tiles, lst_tiles, threads>>

\* GET /api/climate/precipitation-drought
precipitation_drought ==
    /\ phase = "idle"
    /\ \E r \in HexagonRequests("precipitation_drought", DroughtQueries) :
         \E e \in EnvsFor(/\ initialized["drought_service"]
                          /\ DroughtValidation(r) = "ok"
                          /\ ~BoundsTooLarge(r.north - r.south, r.east - r.west, r.resolution),
                          1, PrecipValues) :
            LET h == PrecipitationDroughtHandler(initialized["drought_service"], r, e)
            IN  /\ req' = r
                /\ ee_env' = e
                /\ resp' = h.resp
                /\ trace' = h.tr
    /\ phase' = "responded"
    /\ UNCHANGED <<initialized, cached_tiles, lst_tiles, threads>>

\* GET /api/climate/urban-heat-island
urban_heat_island ==
    /\ phase = "idle"
    /\ \E r \in HeatIslandRequests :
         \E e \in EnvsFor(initialized["heat_island_service"] /\ HeatIslandValidation(r) = "ok",
                          1, UhiValues) \ EnvEmptyCollection :
            LET h == UrbanHeatIslandHandler(initialized["heat_island_service"], r, e)
            IN  /\ req' = r
                /\ ee_env' = e
                /\ resp' = h.resp
                /\ trace' = h.tr
    /\ phase' = "responded"
    /\ UNCHANGED <<initialized, cached_tiles, lst_tiles, threads>>

\* The platform behaviours tried for a groundwater request
GroundwaterEnvs(r) ==
    IF r.mode = "aquifer"
    THEN (Envs(IF r.aquifer = "all" THEN 12 ELSE 4, GraceValues) \cup EnvChangeGaps)
            \ EnvEmptyCollection
    ELSE IF HexCount(GraceGetHexagonsInBounds(BoundsDict(r), r.resolution)) > GRACE_SAMPLE_SIZE
    THEN EnvSampling
    ELSE (Envs(2, GraceValues) \cup EnvChangeGaps) \ (EnvEmptyCollection \cup EnvTessFails)

\* GET /api/climate/groundwater
groundwater_depletion ==
    /\ phase = "idle"
    /\ \E r \in GroundwaterRequests :
         \E e \in IF initialized["groundwater_service"] /\ GroundwaterValidation(r) = "ok"
                  THEN GroundwaterEnvs(r) ELSE {NoEnv} :
            LET h == GroundwaterDepletionHandler(initialized["groundwater_service"], r, e)
            IN  /\ req' = r
                /\ ee_env' = e
                /\ resp' = h.resp
                /\ trace' = h.tr
    /\ phase' = "responded"
    /\ UNCHANGED <<initialized, cached_tiles, lst_tiles, threads>>

\* GET /api/climate/metro-humidity
metro_humidity ==
    /\ phase = "idle"
    /\ \E r \in MetroRequests :
         \E e \in EnvsFor(initialized["metro_humidity_service"] /\ MetroValidation(r) = "ok",
                          1, MetroValues) \ (EnvEmptyCollection \cup EnvTessFails) :
            LET h == MetroHumidityHandler(initialized["metro_humidity_service"], r, e)
            IN  /\ req' = r
                /\ ee_env' = e
                /\ resp' = h.resp
                /\ trace' = h.tr
    /\ phase' = "responded"
    /\ UNCHANGED <<initialized, cached_tiles, lst_tiles, threads>>

\* GET /api/climate/topographic-relief/tiles
topographic_relief_tiles ==
    /\ phase = "idle"
    /\ \E r \in ReliefRequests :
         \E e \in {NoEnv} \cup EnvFailing(1) :
            LET h == TopographicReliefHandler(initialized["relief_service"], cached_tiles, r, e)
            IN  /\ req' = r
                /\ ee_env' = e
                /\ resp' = h.resp
                /\ trace' = h.tr
                /\ cached_tiles' = h.cache
    /\ phase' = "responded"
    /\ UNCHANGED <<initialized, lst_tiles, threads>>

\* GET /api/climate/temperature-projection/tiles
temperature_projection_tiles ==
    /\ phase = "idle"
    /\ \E r \in TileRequests("temperature_projection_tiles") :
         \E e \in {NoEnv} \cup EnvFailing(2) :
            LET h == TileHandler(initialized["climate_service"], r, e)
            IN  /\ req' = r
                /\ ee_env' = e
                /\ resp' = h.resp
                /\ trace' = h.tr
    /\ phase' = "responded"
    /\ UNCHANGED <<initialized, cached_tiles, lst_tiles, threads>>

\* GET /api/climate/urban-heat-island/tiles
urban_heat_island_tiles ==
    /\ phase = "idle"
    /\ \E r \in TileRequests("urban_heat_island_tiles") :
         \E e \in {NoEnv} \cup EnvFailing(2) :
            LET h == TileHandler(initialized["heat_island_service"], r, e)
            IN  /\ req' = r
                /\ ee_env' = e
                /\ resp' = h.resp
                /\ trace' = h.tr
    /\ phase' = "responded"
    /\ UNCHANGED <<initialized, cached_tiles, lst_tiles, threads>>

\* GET /api/climate/precipitation-drought/tiles
precipitation_drought_tiles ==
    /\ phase = "idle"
    /\ \E r \in TileRequests("precipitation_drought_tiles") :
         \E e \in {NoEnv} \cup EnvFailing(2) :
            LET h == TileHandler(initialized["drought_service"], r, e)
            IN  /\ req' = r
                /\ ee_env' = e
                /\ resp' = h.resp
                /\ trace' = h.tr
    /\ phase' = "responded"
    /\ UNCHANGED <<initialized, cached_tiles, lst_tiles, threads>>

\* UrbanExpansionService.get_urban_expansion_tile_url, called by a script for
\* the first two, a middle and the last projection year
get_urban_expansion_tile_url ==
    /\ phase = "idle"
    /\ \E y \in {2020, 2021, 2050, 2100}, sc \in {"rcp26", "rcp45", "rcp85", "ssp245"} :
         \E e \in {NoEnv} \cup EnvFailing(2) :
            LET out == GetUrbanExpansionTileUrl(initialized["urban_expansion_service"], y, sc, e)
            IN  /\ req' = [endpoint |-> "get_urban_expansion_tile_url", year |-> y,
                           scenario |-> sc]
                /\ ee_env' = e
                /\ resp' = CallResult(Returned(out.value, out.tr))
                /\ trace' = out.tr
    /\ phase' = "responded"
    /\ UNCHANGED <<initialized, cached_tiles, lst_tiles, threads>>

\* LandsatLSTService.get_tile_url, called by a script
landsat_get_tile_url ==
    /\ phase = "idle"
    /\ \E r \in LandsatCalls :
         \E e \in {NoEnv} \cup EnvFailing(2) :
            LET out == GetTileUrl(initialized["landsat_service"], lst_tiles, r.season,
                                  r.color_scheme, e)
            IN  /\ req' = r
                /\ ee_env' = e
                /\ resp' = CallResult(Returned(out.value, out.tr))
                /\ trace' = out.tr
                /\ lst_tiles' = out.cache
    /\ phase' = "responded"
    /\ UNCHANGED <<initialized, cached_tiles, threads>>

\* services.wet_bulb_service.WetBulbService.get_wet_bulb_hexagons, called by
\* a script
services_get_wet_bulb_hexagons ==
    /\ phase = "idle"
    /\ \E r \in WetBulbCalls("services_get_wet_bulb_hexagons", {"rcp45", "ssp585"}, {2, 4},
                            {"tuple", "dict"}) :
         \E e \in EnvsFor(initialized["wet_bulb_service"], 1, WetBulbValues)
                    \ (EnvEmptyCollection \cup EnvTessFails) :
            LET out == ServicesGetWetBulbHexagons(initialized["wet_bulb_service"],
                                                  WetBulbBoundsArgument(r),
                                                  r.year, r.scenario, r.resolution, e)
            IN  /\ req' = r
                /\ ee_env' = e
                /\ resp' = CallResult(out)
                /\ trace' = out.tr
    /\ phase' = "responded"
    /\ UNCHANGED <<initialized, cached_tiles, lst_tiles, threads>>

\* wet_bulb_service.WetBulbService.get_wet_bulb_hexagons, called by a script.
\* The constructor of this class raises when Earth Engine cannot be
\* initialised, so there is an object to call only when it is up.  When the
\* cell generator does not terminate, neither does the call.
root_get_wet_bulb_hexagons ==
    /\ phase = "idle"
    /\ initialized["wet_bulb_service"]
    /\ \E r \in WetBulbCalls("root_get_wet_bulb_hexagons", {"ssp245"}, {4}, {"tuple"}) :
         /\ req' = r
         /\ IF GenerateH3HexagonsDiverges(BoundsDict(r))
            THEN /\ phase' = "hung"
                 /\ UNCHANGED <<resp, ee_env, trace>>
            ELSE /\ phase' = "responded"
                 /\ \E e \in Envs(1, WetBulbValues) \ (EnvEmptyCollection \cup EnvTessFails) :
                      LET out == RootGetWetBulbHexagons(BoundsDict(r), r.year, r.scenario,
                                                        r.resolution, e)
                      IN  /\ ee_env' = e
                          /\ resp' = CallResult(out)
                          /\ trace' = out.tr
    /\ UNCHANGED <<initialized, cached_tiles, lst_tiles, threads>>

\* The response has been sent; the server waits for the next request.
Return ==
    /\ phase = "responded"
    /\ phase' = "idle"
    /\ req' = NoRequest
    /\ resp' = NoResponse
    /\ ee_env' = NoEnv
    /\ trace' = NoTrace
    /\ UNCHANGED <<initialized, cached_tiles, lst_tiles, threads>>

Next ==
    \/ temperature_projection
    \/ precipitation_drought
    \/ urban_heat_island
    \/ groundwater_depletion
    \/ metro_humidity
    \/ services_get_wet_bulb_hexagons
    \/ root_get_wet_bulb_hexagons
    \/ temperature_projection_tiles
    \/ urban_heat_island_tiles
    \/ precipitation_drought_tiles
    \/ get_urban_expansion_tile_url
    \/ Return

Spec == Init /\ [][Next]_vars

\* The tile services alone, with the caches of tile URLs they fill
TileCacheNext ==
    \/ topographic_relief_tiles
    \/ landsat_get_tile_url
    \/ Return

TileCacheSpec == Init /\ [][TileCacheNext]_vars

\* Request threads of the server in topographic_relief_tiles() at the same
\* time. A thread runs without interruption up to the blocking getMapId call
\* of get_hillshade_tiles, which it reaches when the style is valid, not in
\* the cache and Earth Engine is initialised; every other request is answered
\* at once.
relief_thread_begins(t) ==
    /\ threads[t].pc = "idle"
    /\ \E r \in {q \in ReliefRequests : q.style \in {"classic", "dark", "neon"}} :
         LET up == initialized["relief_service"]
             h  == TopographicReliefHandler(up, cached_tiles, r, NoEnv)
         IN  IF h.resp.status = 200 /\ r.style \notin DOMAIN cached_tiles /\ up
             THEN threads' = [threads EXCEPT ![t] = [pc |-> "getMapId", req |-> r]]
             ELSE threads' = [threads EXCEPT ![t] = [pc |-> "responded", req |-> r,
                                                     resp |-> h.resp]]
    /\ UNCHANGED <<initialized, phase, req, resp, ee_env, trace, cached_tiles, lst_tiles>>

\* getMapId returns or raises in a thread whose lookup missed: the rest of
\* get_hillshade_tiles stores the result under the style, whatever the cache
\* holds by now, and the handler answers.
relief_thread_generates(t) ==
    /\ threads[t].pc = "getMapId"
    /\ \E e \in {NoEnv, [NoEnv EXCEPT !.url_format = "maps/2"]} \cup EnvFailing(1) :
         LET h == TopographicReliefHandler(TRUE, NoTiles, threads[t].req, e)
         IN  /\ threads' = [threads EXCEPT ![t] = [pc |-> "responded", req |-> threads[t].req,
                                                   resp |-> h.resp]]
             /\ cached_tiles' = [st \in DOMAIN cached_tiles \cup DOMAIN h.cache |->
                                    IF st \in DOMAIN h.cache THEN h.cache[st]
                                    ELSE cached_tiles[st]]
    /\ UNCHANGED <<initialized, phase, req, resp, ee_env, trace, lst_tiles>>

\* The response of a thread has been sent.
relief_thread_ends(t) ==
    /\ threads[t].pc = "responded"
    /\ threads' = [threads EXCEPT ![t] = [pc |-> "idle"]]
    /\ UNCHANGED <<initialized, phase, req, resp, ee_env, trace, cached_tiles, lst_tiles>>

ThreadedNext ==
    \E t \in 1..MaxThreads :
        \/ relief_thread_begins(t)
        \/ relief_thread_generates(t)
        \/ relief_thread_ends(t)

ThreadedSpec == Init /\ [][ThreadedNext]_vars

\* ------------------------------------------------------------ properties
\* The request being answered went through the size check of its service: it
\* passed the endpoint's validation and the service is initialised.
SizeChecked ==
    /\ phase = "responded"
    /\ \/ /\ req.endpoint = "temperature_projection"
          /\ TemperatureValidation(req) = "ok"
          /\ initialized["climate_service"]
       \/ /\ req.endpoint = "precipitation_drought"
          /\ DroughtValidation(req) = "ok"
          /\ initialized["drought_service"]

\* The response is the 400 of the size check.
RejectedAsTooLarge ==
    /\ resp.status = 400
    /\ ~resp.body.success
    /\ resp.body.error.what = "Invalid parameter"
    /\ resp.body.error.cause.what = "Bounding box too large"

\* C1: for every request of the temperature or drought endpoint that passes the
\* size check, every collection handed to reduceRegions holds at most 5000
\* cells.
C1_BatchWithinReducerLimit ==
    SizeChecked => \A k \in 1..Len(trace.batches) : trace.batches[k] <= EE_MAX_ELEMENTS

\* (lat_span * 111) * (lon_span * 111) / cell_area > 4500 for the request,
\* cross-multiplied
EstimateExceedsMaximum ==
    LET area == resolution_area_km2(req.resolution)
    IN  ((req.north - req.south) * 111) * ((req.east - req.west) * 111) * area[2]
            > 4500 * area[1]

\* C2: the size check of both services rejects a request exactly when its
\* estimate (lat_span*111)*(lon_span*111)/cell_area is above 4500; the error
\* names the span, the estimate, the maximum 4500 and the zoom-in hint, and
\* nothing is generated or submitted; the 50 x 50 degree box at 4.8 km2 is
\* rejected and a 1 x 1 degree box at 240 km2 is accepted.
C2_SizeCheckRejectsExactlyAbove4500 ==
    SizeChecked =>
        /\ RejectedAsTooLarge <=> EstimateExceedsMaximum
        /\ RejectedAsTooLarge =>
              /\ resp.body.error.cause.lat_span = req.north - req.south
              /\ resp.body.error.cause.lon_span = req.east - req.west
              /\ resp.body.error.cause.max_hexagons = 4500
              /\ resp.body.error.cause.hint = "Please zoom in closer"
              /\ trace = NoTrace
        /\ (BoundsDict(req) = BoundsDict(WideBox) /\ req.resolution = 7) =>
              /\ RejectedAsTooLarge
              /\ resp.body.error.cause.approx_hex_count = 6417188
        /\ (req.north - req.south = 1 /\ req.east - req.west = 1 /\ req.resolution = 5) =>
              ~RejectedAsTooLarge

\* The 50 x 50 degree box at resolution 7 has been through the size check.
C2_Witness ==
    /\ SizeChecked
    /\ BoundsDict(req) = BoundsDict(WideBox)
    /\ req.resolution = 7
    /\ RejectedAsTooLarge

\* ------------------------------------------------------------ collections
HexagonEndpoints ==
    {"temperature_projection", "precipitation_drought", "urban_heat_island",
     "groundwater_depletion"}

WetBulbMethods == {"services_get_wet_bulb_hexagons", "root_get_wet_bulb_hexagons"}

\* A FeatureCollection of polygons has been returned to the caller.
CollectionReturned ==
    /\ phase = "responded"
    /\ \/ req.endpoint \in HexagonEndpoints /\ resp.status = 200
       \/ req.endpoint \in WetBulbMethods /\ resp.body.outcome = "return"

\* The collection returned
ReturnedCollection ==
    IF req.endpoint = "groundwater_depletion" THEN resp.body
    ELSE IF req.endpoint \in WetBulbMethods THEN resp.body.value
    ELSE resp.body.data

\* The cell a feature is about
FeatureCell(feature) ==
    IF "hexId" \in DOMAIN feature.properties THEN feature.properties.hexId
    ELSE feature.properties.hex_id

\* A ring is the [lon, lat] swap of a (lat, lon) boundary followed by its own
\* first vertex.
SwappedAndClosed(ring, boundary) ==
    /\ Len(ring) = Len(boundary) + 1
    /\ \A i \in 1..Len(boundary) : ring[i] = <<boundary[i][2], boundary[i][1]>>
    /\ ring[Len(ring)] = ring[1]

\* C3: every polygon ring of every returned FeatureCollection lists the
\* vertices of its cell's boundary in [lon, lat] order and is closed: its last
\* vertex equals its first.
C3_RingsSwappedAndClosed ==
    CollectionReturned =>
        \A k \in 1..Len(ReturnedCollection.features) :
            LET feature == ReturnedCollection.features[k]
            IN  /\ Len(feature.geometry.coordinates) = 1
                /\ SwappedAndClosed(feature.geometry.coordinates[1],
                                    CellToBoundary(FeatureCell(feature)))

\* ------------------------------------------------------------ exclude policy
\* One call of a converter with the exclude policy has produced the response:
\* a temperature, drought or groundwater request answered 200, other than the
\* groundwater request for all aquifers (three calls).
ExcludePolicyCall ==
    /\ phase = "responded"
    /\ resp.status = 200
    /\ \/ req.endpoint \in {"temperature_projection", "precipitation_drought"}
       \/ /\ req.endpoint = "groundwater_depletion"
          /\ (req.mode = "bounds" \/ req.aquifer # "all")

\* The cells submitted to the reducer for the request
SubmittedCells ==
    IF req.endpoint = "temperature_projection"
    THEN NasaGetHexagonsInBounds(BoundsDict(req), req.resolution, ee_env.tess_fails)
    ELSE IF req.endpoint = "precipitation_drought"
    THEN DroughtGetHexagonsInBounds(BoundsDict(req), req.resolution, ee_env.tess_fails)
    ELSE IF req.mode = "aquifer"
    THEN GraceGetHexagonsInAquifer(AquiferBBox(req.aquifer), req.resolution, ee_env.tess_fails)
    ELSE LET generated == GraceGetHexagonsInBounds(BoundsDict(req), req.resolution)
         IN  IF HexCount(generated) > 5000 THEN RandomSample(generated, 5000, ee_env)
             ELSE generated

\* The reducer returned no value for the submitted cell at rank k (for a
\* groundwater request: no trend or no change).
CellAbsent(k) ==
    \/ ~HasData(ee_env, k)
    \/ req.endpoint = "groundwater_depletion" /\ GraceChangeAbsent(ee_env, k)

\* The ranks of the submitted cells that have a value, ascending
PresentRanks ==
    LET Present(k) == ~CellAbsent(k)
    IN  SelectSeq([k \in 1..HexCount(SubmittedCells) |-> k], Present)

\* Strictly ascending: no repeats
StrictlyAscending(seq) == \A i \in 1..(Len(seq) - 1) : seq[i] < seq[i + 1]

\* C4: under the exclude policy a cell for which the reducer returned no value
\* never appears in the output; each reducer feature with a value appears
\* exactly once; the missing-count equals the number of absent cells, so the
\* output count plus the missing-count is the number of reducer features, and
\* metadata.count is the number of output features; the missing total is
\* logged once per call, after the loop, and not once per cell.  (For a
\* groundwater cell "a value" is a trend and a change.)
C4_ExcludePolicy ==
    ExcludePolicyCall =>
        LET cells   == SubmittedCells
            n       == HexCount(cells)
            out     == ReturnedCollection.features
            present == PresentRanks
            missing == n - Len(present)
        IN  /\ StrictlyAscending(cells.rows) /\ StrictlyAscending(cells.cols)
            /\ n = trace.batches[1]
            /\ Len(out) = Len(present)
            /\ \A j \in 1..Len(out) : FeatureCell(out[j]) = HexAt(cells, present[j])
            /\ \A k \in 1..Min(n, MaxGapRank) :
                  CellAbsent(k) => \A j \in 1..Min(Len(out), MaxGapRank) :
                                      FeatureCell(out[j]) # HexAt(cells, k)
            /\ Len(out) + missing = n
            /\ ReturnedCollection.metadata.count = Len(out)
            /\ Len(trace.log) <= 1
            /\ missing > 0 => /\ Len(trace.log) = 1
                              /\ trace.log[1].missing_count = missing
            /\ missing = 0 => trace.log = <<>>

\* A temperature request was answered with the cells at ranks 1 and 2 absent
\* and other cells present.
C4_Witness ==
    /\ ExcludePolicyCall
    /\ req.endpoint = "temperature_projection"
    /\ ee_env.gaps = {1, 2}
    /\ ~ee_env.all_absent
    /\ Len(ReturnedCollection.features) > 0
    /\ trace.log # <<>>

\* ------------------------------------------------------------ interpolation
\* A temperature request has been answered with a collection.
TemperatureAnswered ==
    /\ phase = "responded"
    /\ req.endpoint = "temperature_projection"
    /\ resp.status = 200

Abs(x) == IF x < 0 THEN -x ELSE x

\* Ring distance between two cells of one resolution (19 cells within ring 2)
GridDistance(a, b) ==
    Max(Max(Abs(a[2] - b[2]), Abs(a[3] - b[3])), Abs((a[2] - b[2]) + (a[3] - b[3])))

\* The ranks of the submitted cells that have a value and lie within ring
\* distance 2 of the cell at rank k
ResolvedNeighbours(k) ==
    {j \in 1..HexCount(SubmittedCells) :
        /\ ~CellAbsent(j)
        /\ GridDistance(HexAt(SubmittedCells, j), HexAt(SubmittedCells, k)) <= 2}

RECURSIVE SumOfMeans(_)
SumOfMeans(ranks) ==
    IF ranks = {} THEN 0
    ELSE LET j == CHOOSE x \in ranks : TRUE
         IN  RawMean(ee_env, j) + SumOfMeans(ranks \ {j})

\* The ranks at which the platform can lack a value
GapRanks == 1..Min(MaxGapRank, HexCount(SubmittedCells))

\* The output features about the submitted cell at rank k
FeaturesOfRank(k) ==
    {j \in 1..Len(ReturnedCollection.features) :
        FeatureCell(ReturnedCollection.features[j]) = HexAt(SubmittedCells, k)}

\* The statement of C5 as written: an absent cell that has a resolved
\* neighbour within ring 2 is in the output with the mean of those neighbours,
\* and an absent cell without one is dropped.
C5_InterpolatesFromRing2 ==
    (TemperatureAnswered /\ ~ee_env.all_absent) =>
        \A k \in GapRanks :
            CellAbsent(k) =>
                LET near == ResolvedNeighbours(k)
                IN  IF near = {} THEN FeaturesOfRank(k) = {}
                    ELSE \E j \in FeaturesOfRank(k) :
                            (ReturnedCollection.features[j].properties.projected + KELVIN_OFFSET)
                                * Cardinality(near) = SumOfMeans(near)

\* C5: the temperature converter has no INTERPOLATE policy.  A cell with no
\* reducer value is dropped whether or not cells within ring distance 2 have
\* values, and the value of every output feature is the conversion of that
\* cell's own reducer value (mean - 273.15, anomaly against the 14.5 baseline),
\* never a mean of neighbours.
C5_AbsentCellDroppedNeverFilled ==
    TemperatureAnswered =>
        /\ \A k \in GapRanks : CellAbsent(k) => FeaturesOfRank(k) = {}
        /\ LET cells   == SubmittedCells
               present == PresentRanks
               out     == ReturnedCollection.features
           IN  \A j \in 1..Len(out) :
                  LET own == RawMean(ee_env, present[j])
                  IN  /\ out[j].properties.hexId = HexAt(cells, present[j])
                      /\ out[j].properties.projected = own - 27315
                      /\ out[j].properties.tempAnomaly = own - 27315 - 1450

\* The cell at rank 1 has no value, cells within ring 2 of it have one (their
\* values differ), and the request has been answered.
C5_Witness ==
    /\ TemperatureAnswered
    /\ ee_env.gaps = {1}
    /\ ee_env.value # ee_env.value2
    /\ Cardinality(ResolvedNeighbours(1)) >= 3

\* ------------------------------------------------------------ end to end
\* The request of the scenario: north 41, south 40, east -73, west -75,
\* resolution 7, with valid year and scenario, on an initialised service.
NycRequest ==
    /\ phase = "responded"
    /\ req.endpoint = "temperature_projection"
    /\ BoundsDict(req) = BoundsDict(NycBox)
    /\ req.resolution = 7
    /\ TemperatureValidation(req) = "ok"
    /\ initialized["climate_service"]

\* The reducer of the scenario: 300.0 K for every cell but one, absent
MockReducer ==
    /\ ee_env.value = 30000
    /\ ee_env.value2 = 30000
    /\ ee_env.gaps = {1}
    /\ ~ee_env.all_absent

\* The statement of C6 as written: the request is answered with as many
\* features as cells were generated, 26.85 for the cells with a value and 26.25
\* for the gap.
C6_NycScenarioInterpolated ==
    NycRequest =>
        /\ resp.status = 200
        /\ Len(ReturnedCollection.features) = HexCount(SubmittedCells)
        /\ \A j \in 1..Len(ReturnedCollection.features) :
              ReturnedCollection.features[j].properties.projected \in {2685, 2625}

\* C6: end to end, the request for north 41, south 40, east -73, west -75 at
\* resolution 7 is rejected by the size check (estimate 5134 > 4500) with a 400
\* and nothing is generated or submitted; for a request that passes the size
\* check, with a reducer returning 300.0 K for every cell except one absent
\* cell, the collection has one feature fewer than cells were submitted, the
\* absent cell is not in it, and every feature carries 300.0 - 273.15 = 26.85.
C6_NycRejectedGapDropped ==
    /\ NycRequest =>
          /\ RejectedAsTooLarge
          /\ resp.body.error.cause.approx_hex_count = 5134
          /\ trace = NoTrace
    /\ (TemperatureAnswered /\ MockReducer) =>
          /\ Len(ReturnedCollection.features) = trace.batches[1] - 1
          /\ FeaturesOfRank(1) = {}
          /\ \A j \in 1..Len(ReturnedCollection.features) :
                /\ ReturnedCollection.features[j].properties.projected = 2685
                /\ ReturnedCollection.features[j].properties.tempAnomaly = 1235

\* The request of the scenario has been answered.
C6_Witness ==
    /\ NycRequest
    /\ req.year = 2050
    /\ resp.status = 400

\* ------------------------------------------------------------ failures
\* C7: a returned result carries metadata.isRealData = true only when every
\* contributing value came from the reducer: none when the platform is not
\* initialised, when a platform call of the request failed, or when a value is
\* a fallback.
C7_RealDataFlagOnlyForReducerValues ==
    (/\ CollectionReturned
     /\ "metadata" \in DOMAIN ReturnedCollection
     /\ "isRealData" \in DOMAIN ReturnedCollection.metadata
     /\ ReturnedCollection.metadata.isRealData) =>
        /\ \A sv \in Services : initialized[sv]
        /\ trace.failed = 0
        /\ trace.synthetic = 0

\* C8: when the platform is not initialised or a platform call fails during a
\* request, the response carries no synthetic or simulated value.
C8_NoSyntheticSubstitute ==
    (/\ phase = "responded"
     /\ \/ \E sv \in Services : ~initialized[sv]
        \/ trace.failed > 0) =>
        trace.synthetic = 0

\* C9: a failure of a platform call made while serving a hexagon-data request
\* reaches the HTTP caller as an error response, never as a 2xx.
C9_FailurePropagates ==
    (/\ phase = "responded"
     /\ req.endpoint \in HexagonEndpoints
     /\ trace.failed > 0) =>
        resp.status >= 400

\* The request names a bounding box that is malformed or degenerate.
MalformedBounds ==
    /\ phase = "responded"
    /\ req.endpoint \in HexagonEndpoints
    /\ req.endpoint = "groundwater_depletion" => req.mode = "bounds"
    /\ req.has_bounds
    /\ InvalidLatitudeBounds(req) \/ InvalidLongitudeBounds(req)

\* C10: every endpoint that accepts a bounding box answers a request with
\* malformed or degenerate bounds with a 400, and neither generates cells nor
\* submits any to the reducer for it.
C10_MalformedBoundsRejected ==
    MalformedBounds =>
        /\ resp.status = 400
        /\ trace.gen_calls = 0
        /\ trace.batches = <<>>

\* ------------------------------------------------------------ resolutions
\* The call or request has been answered with an error.
AnsweredWithError ==
    IF req.endpoint \in WetBulbMethods THEN resp.body.outcome = "raise"
    ELSE resp.status >= 400

\* The resolutions for which the service of the request has a cell area, a
\* buffer factor or an edge length (for the heat island service, which has no
\* table, the resolutions of the H3 library).
SupportedResolutions ==
    CASE req.endpoint \in {"temperature_projection", "precipitation_drought"} -> 1..10
      [] req.endpoint = "urban_heat_island" -> 0..15
      [] req.endpoint = "groundwater_depletion" -> 5..8
      [] req.endpoint = "services_get_wet_bulb_hexagons" -> 4..7
      [] OTHER -> 0..15

\* A hexagon request with a resolution outside the supported range has been
\* answered.
UnsupportedResolution ==
    /\ phase = "responded"
    /\ req.endpoint \in HexagonEndpoints \cup {"services_get_wet_bulb_hexagons"}
    /\ req.resolution \notin SupportedResolutions

\* C11: a hexagon request whose resolution is outside the supported range
\* fails with an error, and no cells are generated for it with a default cell
\* area, buffer factor or edge length standing in for the unsupported
\* resolution.
C11_UnsupportedResolutionFails ==
    UnsupportedResolution =>
        /\ AnsweredWithError
        /\ trace.gen_calls = 0
        /\ trace.batches = <<>>

\* ------------------------------------------------------------ empty results
\* The endpoint's validation accepts the request.
RequestValid ==
    CASE req.endpoint = "temperature_projection" -> TemperatureValidation(req) = "ok"
      [] req.endpoint = "precipitation_drought" -> DroughtValidation(req) = "ok"
      [] req.endpoint = "urban_heat_island" -> HeatIslandValidation(req) = "ok"
      [] req.endpoint = "groundwater_depletion" -> GroundwaterValidation(req) = "ok"
      [] OTHER -> FALSE

\* The service the endpoint of the request calls
ServiceOf ==
    CASE req.endpoint = "temperature_projection" -> "climate_service"
      [] req.endpoint = "precipitation_drought" -> "drought_service"
      [] req.endpoint = "urban_heat_island" -> "heat_island_service"
      [] OTHER -> "groundwater_service"

\* What the endpoint answers to the same request when the service is
\* initialised or not and the platform behaves as env
ResponseWith(up, env) ==
    CASE req.endpoint = "temperature_projection" -> TemperatureProjectionHandler(up, req, env).resp
      [] req.endpoint = "precipitation_drought" -> PrecipitationDroughtHandler(up, req, env).resp
      [] req.endpoint = "urban_heat_island" -> UrbanHeatIslandHandler(up, req, env).resp
      [] OTHER -> GroundwaterDepletionHandler(up, req, env).resp

\* The platform was reachable, every call succeeded and no cell was resolved.
ZeroResolvableCells ==
    /\ phase = "responded"
    /\ req.endpoint \in HexagonEndpoints
    /\ RequestValid
    /\ initialized[ServiceOf]
    /\ ee_env.all_absent
    /\ trace.failed = 0
    /\ trace.ee_calls > 0

\* C12: the answer to a request for which the reducer is reachable and returns
\* no resolvable cell differs, in status or body, from the answer the same
\* request gets when the platform calls fail and from the answer it gets when
\* the service is not initialised.
C12_EmptyDistinctFromFailure ==
    ZeroResolvableCells =>
        /\ ResponseWith(TRUE, [NoEnv EXCEPT !.down = TRUE]) # resp
        /\ ResponseWith(FALSE, NoEnv) # resp

\* ------------------------------------------------------------ coverage
\* Cells have been generated for a request of a dense-grid module that names
\* a valid box and a supported resolution.
GeneratedForValidBox ==
    /\ phase = "responded"
    /\ \/ req.endpoint = "groundwater_depletion" /\ req.mode = "bounds"
       \/ req.endpoint \in WetBulbMethods
    /\ req.has_bounds
    /\ ~InvalidLatitudeBounds(req)
    /\ ~InvalidLongitudeBounds(req)
    /\ req.resolution \in SupportedResolutions
    /\ trace.gen_calls = 1

\* The cells generated for the request and handed to the reducer
CellsForReducer ==
    IF req.endpoint = "groundwater_depletion" THEN SubmittedCells
    ELSE IF req.endpoint = "services_get_wet_bulb_hexagons"
    THEN WetBulbGetHexagonsInBounds(BoundsDict(req), req.resolution)
    ELSE GenerateH3Hexagons(BoundsDict(req), req.resolution)

\* The elements of a sequence
Range(seq) == {seq[k] : k \in 1..Len(seq)}

\* Every cell of the lattice that holds a point of the box is in the list,
\* but for the outermost cells along the edges of the box: what is left
\* uncovered is nowhere wider than one cell.
CoversBox(cells, box) ==
    LET p       == CellPitch(cells.res)
        rows    == ((Deg(box.south) \div p) + 1)..((Deg(box.north) \div p) - 1)
        cols    == ((Deg(box.west) \div p) + 1)..((Deg(box.east) \div p) - 1)
        ncols   == Len(cells.cols)
    IN  /\ rows \subseteq Range(cells.rows)
        /\ cols \subseteq Range(cells.cols)
        /\ \A a \in 1..Len(cells.rows) : \A b \in 1..ncols :
              (cells.rows[a] \in rows /\ cells.cols[b] \in cols) =>
                  LET rank == ((a - 1) * ncols) + b
                  IN  cells.skip < rank /\ rank <= cells.skip + cells.take

\* C13: for a valid bounding box and a supported resolution the cells that
\* are generated and submitted to the reducer cover the whole box, with no
\* gap larger than one cell, also when more cells are generated than the
\* module's cap.
C13_SubmittedCellsCoverBox ==
    GeneratedForValidBox => CoversBox(CellsForReducer, BoundsDict(req))

\* ------------------------------------------------------------ determinism
\* Cells have been generated for a valid request of a service that hands them
\* to the reducer in one collection.
CellsSubmitted ==
    /\ phase = "responded"
    /\ req.endpoint \in {"temperature_projection", "precipitation_drought", "groundwater_depletion"}
    /\ RequestValid
    /\ (req.endpoint = "groundwater_depletion" /\ req.mode = "aquifer") => req.aquifer # "all"
    /\ trace.gen_calls = 1

\* The cells a second request with the same bounds and resolution submits
\* when random.sample, where it is called, keeps the end of the list or the
\* start
ResubmittedCells(tail) ==
    IF req.endpoint = "groundwater_depletion" /\ req.mode = "bounds"
    THEN LET generated == GraceGetHexagonsInBounds(BoundsDict(req), req.resolution)
         IN  IF HexCount(generated) > 5000
             THEN RandomSample(generated, 5000, [ee_env EXCEPT !.sample_tail = tail])
             ELSE generated
    ELSE SubmittedCells

\* C14: cell generation is deterministic: a second request with the same
\* bounds and the same resolution submits the same cells to the reducer as the
\* request answered, in every module.
C14_SameCellsForSameRequest ==
    CellsSubmitted => \A tail \in BOOLEAN : ResubmittedCells(tail) = SubmittedCells

\* ------------------------------------------------------------ duplicates
\* No element twice
NoRepeats(seq) == Cardinality(Range(seq)) = Len(seq)

\* C15: the collection of cell ids the generator returns holds no cell id
\* twice, under the polygon tessellation and under the dense-grid fallback
\* (its rows and its columns hold no value twice and the list is a window of
\* their product), and the FeatureCollection built from it holds no cell twice.
C15_NoCellTwice ==
    CellsSubmitted =>
        LET cells == SubmittedCells
        IN  /\ NoRepeats(cells.rows)
            /\ NoRepeats(cells.cols)
            /\ cells.skip >= 0
            /\ cells.skip + cells.take <= Len(cells.rows) * Len(cells.cols)
            /\ resp.status = 200 =>
                  LET out == ReturnedCollection.features
                  IN  Cardinality({FeatureCell(out[j]) : j \in 1..Len(out)}) = Len(out)

\* The dense-grid fallback generated the cells of a request that was answered
\* with several features.
C15_Witness ==
    /\ CellsSubmitted
    /\ ee_env.tess_fails
    /\ resp.status = 200
    /\ Len(ReturnedCollection.features) >= 2

\* ------------------------------------------------------------ batching
\* C16: binding cell values is batched: the reducer is invoked once per batch
\* and not once per cell, so the number of blocking platform calls of a
\* hexagon-data request stays within the fixed number a batched request needs
\* (four for each aquifer fetched) whatever the number of cells generated.
C16_RoundTripsDoNotGrowWithCells ==
    (/\ phase = "responded"
     /\ req.endpoint \in HexagonEndpoints \cup WetBulbMethods) =>
        trace.ee_calls <= 4 * Len(AquifersToFetch)

\* ------------------------------------------------------------ wet bulb fields
\* C17: for bounds given as a (west, south, east, north) tuple,
\* services.wet_bulb_service.WetBulbService.get_wet_bulb_hexagons returns a dict
\* of type FeatureCollection in which the properties of every feature contain
\* wet_bulb_c, risk_level and h3_index.
C17_WetBulbFeatureFields ==
    (/\ phase = "responded"
     /\ req.endpoint = "services_get_wet_bulb_hexagons"
     /\ req.bounds_form = "tuple"
     /\ resp.body.outcome = "return") =>
        /\ resp.body.value.type = "FeatureCollection"
        /\ \A k \in 1..Len(resp.body.value.features) :
              {"wet_bulb_c", "risk_level", "h3_index"}
                  \subseteq DOMAIN resp.body.value.features[k].properties

\* ------------------------------------------------------------ order of checks
\* A temperature or drought request that the endpoint's validation accepts
\* has been answered.
ServiceCalled ==
    /\ phase = "responded"
    /\ req.endpoint \in {"temperature_projection", "precipitation_drought"}
    /\ RequestValid

\* C18: in get_temperature_projection and get_drought_data the size check
\* completes before any cell generation and before any platform call: a
\* request rejected as too large has generated no cells and made no platform
\* call; and a service that is not initialised fails before the size check,
\* whatever the size of the box.
C18_SizeCheckComesFirst ==
    ServiceCalled =>
        /\ RejectedAsTooLarge =>
              /\ trace.gen_calls = 0
              /\ trace.batches = <<>>
              /\ trace.ee_calls = 0
        /\ (initialized[ServiceOf] /\ EstimateExceedsMaximum) => RejectedAsTooLarge
        /\ ~initialized[ServiceOf] =>
              /\ resp.status = 500
              /\ resp.body.error = Msg("Earth Engine not initialized")
              /\ trace = NoTrace

\* A drought request for a box that is too large has been rejected by the
\* size check.
C18_Witness ==
    /\ ServiceCalled
    /\ req.endpoint = "precipitation_drought"
    /\ initialized[ServiceOf]
    /\ EstimateExceedsMaximum
    /\ RejectedAsTooLarge

\* ------------------------------------------------------------ fallback
\* The approximate edge length of a cell, in u (edge_length_map)
ApproxEdgeLength(resolution) ==
    CASE resolution = 1 -> 40000 [] resolution = 2 -> 15000 [] resolution = 3 -> 5000
      [] resolution = 4 -> 2000  [] resolution = 5 -> 750   [] resolution = 6 -> 280
      [] resolution = 7 -> 100   [] resolution = 8 -> 40    [] resolution = 9 -> 15
      [] OTHER -> 5

\* The bounds the generator of the request tessellates
RequestBufferedBounds ==
    BufferedBounds(BoundsDict(req),
                   IF req.endpoint = "temperature_projection"
                   THEN NasaBufferFactor(req.resolution)
                   ELSE DroughtBufferFactor(req.resolution))

\* The polygon tessellation raised while the cells of a temperature or
\* drought request were generated.
FallbackGenerated ==
    /\ ServiceCalled
    /\ initialized[ServiceOf]
    /\ ee_env.tess_fails
    /\ trace.gen_calls = 1

\* C19: when the polygon tessellation raises, _get_hexagons_in_bounds does not
\* fail: the list it returns reaches the reducer, and it is the set, without
\* repeats, of the cells containing the sample points of the grid that starts
\* at (south, west) of the buffered bounds, advances in both dimensions by 0.4
\* times the approximate edge length of the resolution and passes neither
\* north nor east.
C19_FallbackIsDenseGrid ==
    FallbackGenerated =>
        LET cells == SubmittedCells
            b     == RequestBufferedBounds
            step  == (ApproxEdgeLength(req.resolution) * 4) \div 10
            lats  == {lat \in {b.south + (k * step) : k \in 0..((b.north - b.south) \div step)} :
                         lat <= b.north}
            lons  == {lon \in {b.west + (k * step) : k \in 0..((b.east - b.west) \div step)} :
                         lon <= b.east}
        IN  /\ trace.batches = <<HexCount(cells)>>
            /\ b.south \in lats /\ b.west \in lons
            /\ \A lat \in lats : lat + step \in lats \/ lat + step > b.north
            /\ \A lon \in lons : lon + step \in lons \/ lon + step > b.east
            /\ Range(cells.rows) = {LatLngToCell(lat, b.west, req.resolution)[2] : lat \in lats}
            /\ Range(cells.cols) = {LatLngToCell(b.south, lon, req.resolution)[3] : lon \in lons}
            /\ NoRepeats(cells.rows) /\ NoRepeats(cells.cols)
            /\ cells.skip = 0
            /\ cells.take = Len(cells.rows) * Len(cells.cols)

\* The tessellation raised during a temperature request that was answered
\* with the cells of the dense grid.
C19_Witness ==
    /\ FallbackGenerated
    /\ req.endpoint = "temperature_projection"
    /\ resp.status = 200
    /\ Len(ReturnedCollection.features) > 1

\* ------------------------------------------------------------ clamping
\* The cells of a temperature or drought request have been generated.
BufferedAndGenerated ==
    /\ ServiceCalled
    /\ initialized[ServiceOf]
    /\ trace.gen_calls = 1

\* C20: when _get_hexagons_in_bounds buffers the box outward the buffered
\* latitudes are clamped: for every valid box and every resolution buffered
\* north is at most 90 and buffered south at least -90, so that no generated
\* cell lies beyond a pole (its centre under the polygon tessellation, the
\* sample point it was snapped from under the dense grid).
C20_BufferedLatitudesClamped ==
    BufferedAndGenerated =>
        LET b     == RequestBufferedBounds
            cells == SubmittedCells
            p     == CellPitch(req.resolution)
        IN  /\ b.north <= Deg(90)
            /\ b.south >= Deg(-90)
            /\ \A k \in 1..Len(cells.rows) :
                  IF ee_env.tess_fails
                  THEN cells.rows[k] * p <= Deg(90) /\ (cells.rows[k] + 1) * p > Deg(-90)
                  ELSE /\ (cells.rows[k] * p) + (p \div 2) <= Deg(90)
                       /\ (cells.rows[k] * p) + (p \div 2) >= Deg(-90)

\* A box that touches the north pole, whose buffered north would pass 90, has
\* been answered with cells.
C20_Witness ==
    /\ BufferedAndGenerated
    /\ req.north = 90
    /\ resp.status = 200
    /\ Len(ReturnedCollection.features) > 0

\* ------------------------------------------------------------ tessellated bounds
\* C21: every bounds value handed to tessellation, the buffered bounds of a
\* validated request included, has south < north and west < east and both
\* longitudes within [-180, 180].
C21_TessellatedBoundsOnMap ==
    BufferedAndGenerated =>
        LET b == RequestBufferedBounds
        IN  /\ b.south < b.north
            /\ b.west < b.east
            /\ Deg(-180) <= b.west
            /\ b.east <= Deg(180)

\* ------------------------------------------------------------ tile caches
\* C22: under any interleaving of concurrent tile requests the tile cache is
\* an idempotent write-if-absent store: it holds one entry per key at most, an
\* entry is not removed and is only ever overwritten by an equal value, and
\* every answered request carries the result of its own key.
C22_CacheWriteIfAbsent ==
    [][/\ \A st \in DOMAIN cached_tiles :
             st \in DOMAIN cached_tiles' /\ cached_tiles'[st] = cached_tiles[st]
       /\ \A t \in 1..MaxThreads :
             threads'[t].pc = "responded" /\ threads'[t].resp.status = 200 =>
                 threads'[t].resp.body.style = threads'[t].req.style]_vars

\* A call of get_hillshade_tiles (through its endpoint, with a valid style) or
\* of get_tile_url is being answered in this step.
ReliefCallStep ==
    /\ phase = "idle" /\ phase' = "responded"
    /\ req'.endpoint = "topographic_relief_tiles"
    /\ resp'.status = 200

LandsatCallStep ==
    /\ phase = "idle" /\ phase' = "responded"
    /\ req'.endpoint = "landsat_get_tile_url"

\* The cache key of the get_tile_url call being answered
LandsatKey == req'.season \o req'.color_scheme

\* C23: once a generation has succeeded for a key its result is in the cache,
\* and every later call with the same key returns the cached result without
\* any call to the platform and leaves the cache as it is; a call whose
\* generation fails returns None (get_tile_url) or the simulated response
\* (get_hillshade_tiles) and leaves the cache unchanged.
C23_CachedResultReused ==
    [][/\ ReliefCallStep =>
             /\ req'.style \in DOMAIN cached_tiles =>
                   /\ resp'.body = cached_tiles[req'.style]
                   /\ trace'.ee_calls = 0
                   /\ cached_tiles' = cached_tiles
             /\ IF trace'.synthetic > 0
                THEN /\ resp'.body = GenerateSimulatedHillshade(req'.style)
                     /\ cached_tiles' = cached_tiles
                ELSE /\ req'.style \in DOMAIN cached_tiles'
                     /\ cached_tiles'[req'.style] = resp'.body
             /\ lst_tiles' = lst_tiles
       /\ LandsatCallStep =>
             /\ LandsatKey \in DOMAIN lst_tiles =>
                   /\ resp'.body.value = lst_tiles[LandsatKey]
                   /\ trace'.ee_calls = 0
                   /\ lst_tiles' = lst_tiles
             /\ IF trace'.failed > 0 \/ ~initialized["landsat_service"]
                THEN /\ resp'.body.value = PyNone
                     /\ lst_tiles' = lst_tiles
                ELSE /\ LandsatKey \in DOMAIN lst_tiles'
                     /\ lst_tiles'[LandsatKey] = resp'.body.value
             /\ cached_tiles' = cached_tiles]_vars

\* A call of each service has been answered from the cache, without a call to
\* the platform, while the platform was failing.
C23_Witness ==
    /\ phase = "responded"
    /\ req.endpoint = "landsat_get_tile_url"
    /\ req.season \o req.color_scheme \in DOMAIN lst_tiles
    /\ resp.body.value = lst_tiles[req.season \o req.color_scheme]
    /\ ee_env.down
    /\ trace.ee_calls = 0
    /\ "classic" \in DOMAIN cached_tiles

\* C24: the caches are bounded and nothing is evicted: the hillshade cache
\* never holds more entries than there are valid styles, the cache of
\* get_tile_url never more than there are valid (season, colour scheme)
\* combinations, and no entry is removed or replaced by a different value.
C24_CacheBounded ==
    [][/\ Cardinality(DOMAIN cached_tiles') <=
             Cardinality({"classic", "dark", "depth", "dramatic"})
       /\ Cardinality(DOMAIN lst_tiles') <=
             Cardinality({"summer", "winter"} \X {"temperature", "heat", "urban"})
       /\ \A st \in DOMAIN cached_tiles :
             st \in DOMAIN cached_tiles' /\ cached_tiles'[st] = cached_tiles[st]
       /\ \A k \in DOMAIN lst_tiles :
             k \in DOMAIN lst_tiles' /\ lst_tiles'[k] = lst_tiles[k]]_vars

\* C25: two calls of get_tile_url with different (season, color_scheme) pairs
\* never share a cache entry: the entry a call stores or returns was generated
\* for its own season and colour scheme.
C25_KeyDistinguishesArguments ==
    [][LandsatCallStep /\ resp'.body.value # PyNone =>
          /\ resp'.body.value = lst_tiles'[LandsatKey]
          /\ resp'.body.value.metadata.color_scheme = req'.color_scheme
          /\ resp'.body.value.metadata.season =
                GetTileUrl(TRUE, NoTiles, req'.season, req'.color_scheme, NoEnv).value.metadata.season]_vars

\* ------------------------------------------------------------ termination
\* C26: every dense-grid generator terminates for every bounds with
\* south <= north and west <= east, the degenerate boxes included, at every
\* resolution: no call made with such bounds is left waiting for its cells.
C26_DenseGridTerminates ==
    phase = "hung" => ~(req.south <= req.north /\ req.west <= req.east)

\* ------------------------------------------------------------ scenario label
\* C27: the scenario property of every feature that the services wet bulb
\* method returns names the scenario whose data was queried, for every
\* scenario string the method accepts, 'ssp585' included: it is the SSP name
\* the dataset was filtered by, or the RCP name SCENARIOS maps to it.
C27_ScenarioLabelIsQueried ==
    /\ phase = "responded"
    /\ req.endpoint = "services_get_wet_bulb_hexagons"
    /\ resp.body.outcome = "return"
    => \A k \in 1..Len(ReturnedCollection.features) :
          LET label == ReturnedCollection.features[k].properties.scenario
          IN  \/ label = trace.scenario_filter
              \/ /\ label \in {"rcp26", "rcp45", "rcp85"}
                 /\ WetBulbSspScenario(label) = trace.scenario_filter

\* ------------------------------------------------------------ tile bounds
\* A tile endpoint has called get_tile_url of its service.
TileServiceCalled ==
    /\ phase = "responded"
    /\ req.endpoint \in {"temperature_projection_tiles", "urban_heat_island_tiles",
                         "precipitation_drought_tiles"}
    /\ resp.status # 400

\* C28: the tile endpoints hand every bound the client supplied, a bound of 0
\* included, to the service unchanged, and use the defaults 90, -90, 180 and
\* -180 only for the bounds that are absent from the request.
C28_SuppliedBoundsPassedUnchanged ==
    TileServiceCalled =>
        /\ trace.region.north = IF "north" \in DOMAIN req.args THEN req.args["north"] ELSE 90
        /\ trace.region.south = IF "south" \in DOMAIN req.args THEN req.args["south"] ELSE -90
        /\ trace.region.east = IF "east" \in DOMAIN req.args THEN req.args["east"] ELSE 180
        /\ trace.region.west = IF "west" \in DOMAIN req.args THEN req.args["west"] ELSE -180

C30_GhslFallbackYieldsTiles ==
    /\ phase = "responded"
    /\ req.endpoint = "get_urban_expansion_tile_url"
    /\ initialized["urban_expansion_service"]
    /\ ee_env.fail_at = 1
    /\ 2020 <= req.year /\ req.year <= 2100
    => /\ resp.body.value # PyNone
       /\ resp.body.value.tile_url = ee_env.url_format
       /\ resp.body.value.metadata.year = req.year
       /\ req.year = 2020 => resp.body.value.metadata.image = "ghsl_2020"

=============================================================================
